---------------------------- MODULE Spec2Model ----------------------------
(***************************************************************************)
(* SnapWright: the registry-file (PageFactory) mutation engine.            *)
(*                                                                         *)
(* The registry file is an un-parsed text buffer that the extension        *)
(* patches with regular expressions and string splicing.  The text is      *)
(* modelled as a flat sequence of tokens: a newline, one unit of           *)
(* whitespace, or an indivisible statement (an import statement, a private *)
(* field, an accessor block, an export, the placeholder comment, the       *)
(* closing brace of the class, or a chunk of unrelated text).  A character *)
(* offset of the source is a token offset of the model.  Identifiers are   *)
(* sequences of character chunks, so that prefix matches and case          *)
(* conversions are computed and not assumed.                               *)
(***************************************************************************)
EXTENDS Integers, Sequences, FiniteSets, TLC

VARIABLES registry, writes, docs, last, cmds, ops

\* the workspace on disk, the extension settings, the preference store
\* (globalState), the clock behind Date.now() and the command in progress
VARIABLES disk, config, prefs, now, run

engineVars == <<registry, writes, docs, last, cmds>>

workspaceVars == <<disk, config, prefs, now, run>>

vars == <<registry, writes, docs, last, cmds, ops, disk, config, prefs, now, run>>

---------------------------------------------------------------------------
(* Bounds *)

MaxOps == 2

MaxBatch == 2

---------------------------------------------------------------------------
(* Identifiers: sequences of character chunks *)

LoginPage == <<"L", "ogin", "P", "age">>

Login == <<"L", "ogin">>

Page == <<"P", "age">>

ClassNames == {LoginPage, Login}

NoIdent == <<>>

toLowerCaseChar(ch) ==
    CASE ch = "L" -> "l"
      [] ch = "P" -> "p"
      [] OTHER -> ch

toLowerCase(id) == [i \in 1..Len(id) |-> toLowerCaseChar(id[i])]

IsPrefix(a, b) == Len(a) <= Len(b) /\ SubSeq(b, 1, Len(a)) = a

includesSeq(s, sub) ==
    \E i \in 0..(Len(s) - Len(sub)) : SubSeq(s, i + 1, i + Len(sub)) = sub

\* the class name taken over as it is
classNameVerbatim(className) == className

classNameToCamelCase(className) ==
    IF className = <<>> THEN <<>>
    ELSE <<toLowerCaseChar(className[1])>> \o Tail(className)

propertyNameOf(className) == <<"_">> \o classNameToCamelCase(className)

getterNameOf(className) == <<"get">> \o className

GlobalPageName == <<"_", "global", "P", "age">>

InstanceName == <<"_", "instance">>

---------------------------------------------------------------------------
(* Tokens of the registry text *)

Tok(kind, names, path) == [k |-> kind, n |-> names, p |-> path, part |-> "whole"]

Nl == Tok("nl", <<>>, <<>>)

Sp == Tok("sp", <<>>, <<>>)

\* import { A, B } from 'path';
ImportTok(names, path) == Tok("import", names, path)

\* import { type Page } from "@playwright/test";
ImportTypePage == Tok("importType", <<Page>>, <<"@playwright/test">>)

\* private _name: Type;
FieldTok(name, type) == Tok("field", <<name, type>>, <<>>)

\* private static _instance: PageFactory;
StaticInstance == Tok("staticInstance", <<>>, <<>>)

GlobalPageField == FieldTok(GlobalPageName, Page)

\* public getX(page?: Page): X { this.ensurePageSet(page); if (!this._x) this._x = new X(); return this._x; }
GetterTok(className, propertyName) == Tok("getter", <<className, propertyName>>, <<>>)

\* export const getX = PageFactory.instance.getX;
ExportTok(className) == Tok("export", <<className>>, <<>>)

\* // Page Object class properties will be added here
Placeholder == Tok("placeholder", <<>>, <<>>)

\* the closing brace of the class, on a line of its own
ClassClose == Tok("classClose", <<>>, <<>>)

\* what is left of an accessor when only "getX(...) ... { ... }" is cut out of it
PublicStub == Tok("publicStub", <<>>, <<>>)

\* unrelated text without a line break in it
Other(id) == Tok("other", <<>>, <<id>>)

IsWs(t) == t.k \in {"nl", "sp"}

IsImportStmt(t) == t.k \in {"import", "importType"} /\ t.part = "whole"

---------------------------------------------------------------------------
(* String operations of the source, on token sequences *)

Min(a, b) == IF a < b THEN a ELSE b

Max(S) == CHOOSE i \in S : \A j \in S : j <= i

\* String.prototype.substring(0, k)
substringTo(c, k) == SubSeq(c, 1, Min(k, Len(c)))

\* String.prototype.substring(k)
substringFrom(c, k) == SubSeq(c, k + 1, Len(c))

RECURSIVE splitRange(_, _, _)
\* the lines of c[lo..hi]: the halves are split on their own, and the last line
\* of the left half goes on in the first line of the right half
splitRange(c, lo, hi) ==
    IF lo > hi THEN <<<<>>>>
    ELSE IF lo = hi THEN (IF c[lo].k = "nl" THEN <<<<>>, <<>>>> ELSE <<<<c[lo]>>>>)
    ELSE LET mid == (lo + hi) \div 2
             left == splitRange(c, lo, mid)
             right == splitRange(c, mid + 1, hi)
         IN SubSeq(left, 1, Len(left) - 1)
               \o <<left[Len(left)] \o right[1]>>
               \o Tail(right)

\* content.split("\n")
split(c) == splitRange(c, 1, Len(c))

RECURSIVE joinRange(_, _, _, _)
joinRange(ls, sep, lo, hi) ==
    IF lo > hi THEN <<>>
    ELSE IF lo = hi THEN ls[lo]
    ELSE LET mid == (lo + hi) \div 2
         IN joinRange(ls, sep, lo, mid) \o sep \o joinRange(ls, sep, mid + 1, hi)

\* Array.prototype.join(sep)
joinWith(ls, sep) == joinRange(ls, sep, 1, Len(ls))

join(ls) == joinWith(ls, <<Nl>>)

RECURSIVE trimStart(_)
trimStart(l) == IF l # <<>> /\ Head(l).k = "sp" THEN trimStart(Tail(l)) ELSE l

\* String.prototype.indexOf(sub), 0-based, -1 when absent
indexOf(c, sub) ==
    LET hits == {i \in 0..(Len(c) - Len(sub)) : SubSeq(c, i + 1, i + Len(sub)) = sub}
    IN IF hits = {} THEN -1 ELSE CHOOSE i \in hits : \A j \in hits : i <= j

\* Array.prototype.splice(at, 0, ...items)
splice(ls, at, items) == SubSeq(ls, 1, at) \o items \o SubSeq(ls, at + 1, Len(ls))

RECURSIVE keepRange(_, _, _, _)
\* c[lo..hi] without the indexes in R
keepRange(c, R, lo, hi) ==
    IF lo > hi THEN <<>>
    ELSE IF R = {} THEN SubSeq(c, lo, hi)
    ELSE IF lo = hi THEN (IF lo \in R THEN <<>> ELSE <<c[lo]>>)
    ELSE LET mid == (lo + hi) \div 2
         IN keepRange(c, {r \in R : r <= mid}, lo, mid)
               \o keepRange(c, {r \in R : r > mid}, mid + 1, hi)

\* the tokens of c whose index is not in R, in order
dropIdx(c, R) == keepRange(c, R \cap (1..Len(c)), 1, Len(c))

RECURSIVE keepIdx(_, _, _, _)
\* the elements of c[lo..hi] whose index is in K
keepIdx(c, K, lo, hi) ==
    IF lo > hi \/ K = {} THEN <<>>
    ELSE IF lo = hi THEN (IF lo \in K THEN <<c[lo]>> ELSE <<>>)
    ELSE LET mid == (lo + hi) \div 2
         IN keepIdx(c, {k \in K : k <= mid}, lo, mid)
               \o keepIdx(c, {k \in K : k > mid}, mid + 1, hi)

\* Array.prototype.filter, with the indexes of the elements to keep
filter(c, K) == keepIdx(c, K \cap (1..Len(c)), 1, Len(c))

\* the whitespace run that a leading \s* of a regular expression takes before i
wsBefore(c, i) == {j \in 1..(i - 1) : \A m \in j..(i - 1) : IsWs(c[m])}

\* the whitespace run that a trailing \s*\n? takes after i
wsAfter(c, i) == {j \in (i + 1)..Len(c) : \A m \in (i + 1)..j : IsWs(c[m])}

---------------------------------------------------------------------------
(* The workspace: helper files *)

HelperFiles == {"f1", "f2", "f3"}

\* cls: the class of the first "export class X" of the file (<<>> when none)
FileInfo(f) ==
    CASE f = "f1" -> [dir |-> <<"pages">>,  base |-> LoginPage, cls |-> LoginPage]
      [] f = "f2" -> [dir |-> <<"legacy">>, base |-> LoginPage, cls |-> LoginPage]
      [] f = "f3" -> [dir |-> <<"pages">>,  base |-> Login,     cls |-> Login]

\* fileContent.match(/export\s+class\s+(\w+)/)
classMatch(f) == FileInfo(f).cls

\* the quick-pick item of a file: label is the class name or the base name
pickLabel(f) == IF classMatch(f) # NoIdent THEN classMatch(f) ELSE FileInfo(f).base

\* path.relative(dirname(registry), file) without ".ts", prefixed with "./"
importPathOf(f) == <<".">> \o FileInfo(f).dir \o <<FileInfo(f).base>>

---------------------------------------------------------------------------
(* generatePageFactoryTemplate *)

generatePageFactoryTemplate ==
    << ImportTypePage, Nl,
       Nl,
       Other("docComment"), Nl,
       Other("classOpen"), Nl,
       Sp, StaticInstance, Nl,
       Sp, GlobalPageField, Nl,
       Nl,
       Sp, Other("constructor"), Nl,
       Nl,
       Sp, Other("methods"), Nl,
       Nl,
       Sp, Placeholder, Nl,
       ClassClose, Nl,
       Nl,
       Other("exportPageFactory"), Nl,
       Other("exportSetPage"), Nl,
       Other("exportPage"), Nl >>

---------------------------------------------------------------------------
(* updatePageFactory: the addition engine *)

\* content.match(/^import\s+.*$/gm): the lines that start with "import"
extractExistingImports(content) ==
    LET lines == split(content)
    IN filter(lines, {i \in 1..Len(lines) :
                        /\ lines[i] # <<>>
                        /\ lines[i][1].k \in {"import", "importType"}
                        /\ lines[i][1].part \in {"whole", "head"}})

\* /private\s+(_\w+):/g over the whole text: the names of the private fields
extractExistingProperties(content) ==
    {content[i].n[1] : i \in {j \in 1..Len(content) :
                                content[j].k = "field" /\ content[j].part = "whole"}}

\* imp.includes(`{ ${className} }`)
includesBraced(imp, className) ==
    \E j \in 1..Len(imp) :
        imp[j].k = "import" /\ imp[j].part = "whole" /\ imp[j].n = <<className>>

\* a loop body without duplicate checks
isDuplicateNever(existingImports, existingProperties, importStatement, className, propertyName) ==
    FALSE

\* the two duplicate checks of the loop body
isDuplicate(existingImports, existingProperties, importStatement, className, propertyName) ==
    \/ \E i \in 1..Len(existingImports) : existingImports[i] = <<importStatement>>
    \/ \E i \in 1..Len(existingImports) : includesBraced(existingImports[i], className)
    \/ propertyName \in existingProperties

EmptyStage ==
    [imports |-> <<>>, properties |-> <<>>, getters |-> <<>>, exports |-> <<>>,
     skippedClasses |-> <<>>, addedClasses |-> <<>>]

\* one iteration of "for (const file of selectedFiles)"
stageOne(st, f, existingImports, existingProperties) ==
    LET className == IF classMatch(f) # NoIdent THEN classMatch(f) ELSE pickLabel(f)
        importStatement == ImportTok(<<className>>, importPathOf(f))
        propertyName == propertyNameOf(className)
    IN IF isDuplicate(existingImports, existingProperties, importStatement,
                      className, propertyName)
       THEN [st EXCEPT !.skippedClasses = Append(@, className)]
       ELSE [st EXCEPT
               !.imports = Append(@, <<importStatement>>),
               !.properties = Append(@, <<Sp, FieldTok(propertyName, className)>>),
               !.getters = Append(@, <<Sp, GetterTok(className, propertyName)>>),
               !.exports = Append(@, <<ExportTok(className)>>),
               !.addedClasses = Append(@, className)]

RECURSIVE stageAll(_, _, _, _)
stageAll(st, selectedFiles, existingImports, existingProperties) ==
    IF selectedFiles = <<>> THEN st
    ELSE stageAll(stageOne(st, Head(selectedFiles), existingImports, existingProperties),
                  Tail(selectedFiles), existingImports, existingProperties)

\* an engine without the early return
proceedsAlways(st) == TRUE

\* "if (imports.length === 0) return": nothing is written when nothing is staged
proceedsToWrite(st) == Len(st.imports) # 0

\* the offset just after the last line that starts with "import " (-1 when none)
findLastImportIndex(content) ==
    LET lines == split(content)
        importLines == {i \in 1..Len(lines) :
                          LET t == trimStart(lines[i])
                          IN t # <<>> /\ Head(t).k \in {"import", "importType"}
                                      /\ Head(t).part \in {"whole", "head"}}
    IN IF importLines = {} THEN -1
       ELSE LET l == lines[Max(importLines)]
            IN indexOf(content, l) + Len(l) + 1

\* "Add imports at the top (after existing imports)"
addImports(content, imports) ==
    LET lastImportIndex == findLastImportIndex(content)
    IN IF lastImportIndex # -1
       THEN substringTo(content, lastImportIndex) \o join(imports) \o <<Nl>>
               \o substringFrom(content, lastImportIndex)
       ELSE join(imports) \o <<Nl, Nl>> \o content

\* line.includes("_globalPage") / line.includes("_instance")
lineIncludesName(l, name) ==
    \E j \in 1..Len(l) :
        \/ l[j].k = "field" /\ includesSeq(l[j].n[1], name)
        \/ l[j].k = "staticInstance" /\ name = InstanceName

\* "Add properties with clean formatting"
addProperties(content, properties) ==
    LET lines == split(content)
        globalPageLines == {i \in 1..Len(lines) :
                              \E j \in 1..Len(lines[i]) : lines[i][j] = GlobalPageField}
        pageObjectLines == {i \in 1..Len(lines) :
                              LET t == trimStart(lines[i])
                              IN /\ t # <<>>
                                 /\ Head(t).k = "field"
                                 /\ Head(t).part \in {"whole", "head"}
                                 /\ ~lineIncludesName(t, GlobalPageName)
                                 /\ ~lineIncludesName(t, InstanceName)}
    IN IF pageObjectLines # {}
       THEN join(splice(lines, Max(pageObjectLines), properties))
       ELSE IF globalPageLines # {}
       THEN join(splice(lines, Max(globalPageLines), <<<<>>>> \o properties))
       ELSE join(lines)

\* the tokens whose text holds a closing brace
hasBrace(t) ==
    \/ t.k \in {"import", "importType", "getter", "classClose"}
    \/ t.k = "other" /\ t.p \in {<<"constructor">>, <<"methods">>}

\* "Add getters before the comment line", or before the last closing brace
addGetters(content, getters) ==
    LET commentIndex == indexOf(content, <<Placeholder>>)
        braces == {i \in 1..Len(content) : hasBrace(content[i]) /\ content[i].part # "head"}
    IN IF commentIndex # -1
       THEN substringTo(content, commentIndex) \o joinWith(getters, <<Nl, Nl>>)
               \o <<Nl, Nl>> \o substringFrom(content, commentIndex)
       ELSE IF braces # {}
       THEN LET b == Max(braces)
                t == content[b]
            IN IF t.k = "classClose"
               THEN SubSeq(content, 1, b - 1) \o join(getters) \o <<Nl>>
                       \o SubSeq(content, b, Len(content))
               ELSE SubSeq(content, 1, b - 1) \o <<[t EXCEPT !.part = "head"]>>
                       \o join(getters) \o <<Nl>> \o <<[t EXCEPT !.part = "tail"]>>
                       \o SubSeq(content, b + 1, Len(content))
       ELSE content

\* "Add exports at the end of the file"
addExports(content, exports) == content \o <<Nl>> \o join(exports)

\* the text that fs.writeFileSync receives
spliceStaged(content, st) ==
    addExports(addGetters(addProperties(addImports(content, st.imports),
                                        st.properties),
                          st.getters),
               st.exports)

updatePageFactory(content, selectedFiles) ==
    LET st == stageAll(EmptyStage, selectedFiles,
                       extractExistingImports(content),
                       extractExistingProperties(content))
    IN IF proceedsToWrite(st)
       THEN [content |-> spliceStaged(content, st), wrote |-> TRUE,
             skipped |-> st.skippedClasses, added |-> st.addedClasses]
       ELSE [content |-> content, wrote |-> FALSE,
             skipped |-> st.skippedClasses, added |-> st.addedClasses]

---------------------------------------------------------------------------
(* removePOMsFromPageFactory: the removal engine of remove-helper *)

\* the six includes() tests of the import filter, for one class name
lineHasClassToRemove(trimmedLine, className) ==
    /\ \E j \in 1..Len(trimmedLine) : trimmedLine[j].k \in {"import", "importType"}
    /\ \E j \in 1..Len(trimmedLine) :
          /\ trimmedLine[j].k \in {"import", "importType"}
          /\ \E m \in 1..Len(trimmedLine[j].n) : trimmedLine[j].n[m] = className

\* "Remove imports": whole lines are filtered out
removeImportLines(content, classNamesToRemove) ==
    LET lines == split(content)
    IN join(filter(lines,
           {n \in 1..Len(lines) :
              LET t == trimStart(lines[n])
              IN ~(/\ t # <<>>
                   /\ Head(t).k \in {"import", "importType"}
                   /\ Head(t).part \in {"whole", "head"}
                   /\ \E i \in 1..Len(classNamesToRemove) :
                         lineHasClassToRemove(t, classNamesToRemove[i]))}))

\* content.replace(regex, "") for a regex of the shape \s* <statement> \s*\n?
removeWithWhitespace(content, hits) ==
    dropIdx(content,
            UNION {({i} \cup wsBefore(content, i)) \cup wsAfter(content, i) : i \in hits})

\* \s*private\s+<propertyName>:\s*<className>;?\s*\n?
removeProperty(content, className) ==
    removeWithWhitespace(content,
        {i \in 1..Len(content) :
            /\ content[i].k = "field" /\ content[i].part = "whole"
            /\ content[i].n[1] = propertyNameOf(className)
            /\ content[i].n[2] = className})

\* \s*public\s+get<className>\s*\([^)]*\)\s*:\s*<className>\s*\{[^}]*\}\s*\n?
removeGetter(content, className) ==
    removeWithWhitespace(content,
        {i \in 1..Len(content) :
            /\ content[i].k = "getter" /\ content[i].part = "whole"
            /\ content[i].n[1] = className})

\* \s*export\s+const\s+get<className>\s*=.*?;\s*\n?
removeExport(content, className) ==
    removeWithWhitespace(content,
        {i \in 1..Len(content) :
            /\ content[i].k = "export" /\ content[i].part = "whole"
            /\ content[i].n[1] = className})

RECURSIVE removePropertiesOf(_, _)
removePropertiesOf(content, classNames) ==
    IF classNames = <<>> THEN content
    ELSE removePropertiesOf(removeProperty(content, Head(classNames)), Tail(classNames))

RECURSIVE removeGettersOf(_, _)
removeGettersOf(content, classNames) ==
    IF classNames = <<>> THEN content
    ELSE removeGettersOf(removeGetter(content, Head(classNames)), Tail(classNames))

RECURSIVE removeExportsOf(_, _)
removeExportsOf(content, classNames) ==
    IF classNames = <<>> THEN content
    ELSE removeExportsOf(removeExport(content, Head(classNames)), Tail(classNames))

\* the newlines of the whitespace run that starts at index a
newlinesOfRun(content, a) ==
    {x \in a..Len(content) :
        content[x].k = "nl" /\ \A q \in a..x : IsWs(content[q])}

\* content.replace(/\n\s*\n\s*\n/g, "\n\n"): a whitespace run with three or more
\* newlines keeps its first and its last newline
collapseBlankLines(content) ==
    LET firsts == {a \in 1..Len(content) :
                     /\ content[a].k = "nl"
                     /\ \A q \in 1..(a - 1) : (\A m \in q..(a - 1) : IsWs(content[m]))
                                                  => content[q].k # "nl"}
    IN dropIdx(content,
               UNION {LET N == newlinesOfRun(content, a)
                      IN IF Cardinality(N) >= 3 THEN (a + 1)..(Max(N) - 1) ELSE {} :
                      a \in firsts})

removePOMsFromPageFactory(content, classNamesToRemove) ==
    collapseBlankLines(
        removeExportsOf(
            removeGettersOf(
                removePropertiesOf(removeImportLines(content, classNamesToRemove),
                                   classNamesToRemove),
                classNamesToRemove),
            classNamesToRemove))

\* extractPageObjectsFromPageFactory: the classes that have an accessor
\* "public getX(page?: Page): X" and a named import, in the order of the accessors
importedNames(content) ==
    UNION {{content[i].n[m] : m \in 1..Len(content[i].n)} :
             i \in {j \in 1..Len(content) : content[j].k = "import"
                                             /\ content[j].part = "whole"}}

classOfToken(t) == t.n[1]

extractPageObjectsFromPageFactory(content) ==
    LET known == filter(content,
                        {i \in 1..Len(content) :
                           /\ content[i].k = "getter" /\ content[i].part = "whole"
                           /\ content[i].n[1] \in importedNames(content)
                           /\ getterNameOf(content[i].n[1]) # <<"get">> \o Page})
    IN [i \in 1..Len(known) |-> classOfToken(known[i])]

---------------------------------------------------------------------------
(* removePageObjectFromPageFactory: the removal engine of delete-helper *)

\* import\s*{[^}]*\b<className>\b[^}]*}\s*from[^;]+;\s*\n?
cutImportStatements(content, className) ==
    dropIdx(content,
            UNION {{i} \cup wsAfter(content, i) :
                     i \in {j \in 1..Len(content) :
                              /\ IsImportStmt(content[j])
                              /\ \E m \in 1..Len(content[j].n) : content[j].n[m] = className}})

\* \s*private\s+_<classname in lower case>[^;]*;\s*\n?
cutPropertyDeclarations(content, className) ==
    removeWithWhitespace(content,
        {i \in 1..Len(content) :
            /\ content[i].k = "field" /\ content[i].part = "whole"
            /\ IsPrefix(<<"_">> \o toLowerCase(className), content[i].n[1])})

\* \s*get<className>\([^)]*\)[^}]*{[^}]*}\s*\n?  -- the word "public" before it stays
cutGetterMethods(content, className) ==
    LET hits == {i \in 1..Len(content) :
                    /\ content[i].k = "getter" /\ content[i].part = "whole"
                    /\ content[i].n[1] = className}
        stubbed == [i \in 1..Len(content) |->
                      IF i \in hits THEN PublicStub ELSE content[i]]
    IN dropIdx(stubbed, UNION {wsAfter(content, i) : i \in hits})

\* the replacements of ",\s*,", "{\s*," and ",\s*}": no token text holds one of them
cleanUpCommas(content) == content

removePageObjectFromPageFactory(content, className) ==
    cleanUpCommas(
        cutGetterMethods(
            cutPropertyDeclarations(cutImportStatements(content, className), className),
            className))

---------------------------------------------------------------------------
(* Circular reference detection and the accessors offered by use-helper *)

\* /public\s+(get\w+)\s*\(\s*page\?\s*:\s*Page\s*\)/g without "getPage"
extractPageObjectGetters(content) ==
    LET getterSeq == filter(content, {i \in 1..Len(content) :
                                        content[i].k = "getter" /\ content[i].part = "whole"})
        names == [i \in 1..Len(getterSeq) |-> getterNameOf(getterSeq[i].n[1])]
    IN filter(names, {i \in 1..Len(names) : names[i] # <<"get">> \o Page})

\* import\s+\{[^}]*\b<className>\b[^}]*\}\s+from\s+['"][^'"]*
registryImportsClass(content, className) ==
    \E i \in 1..Len(content) :
        /\ IsImportStmt(content[i])
        /\ \E m \in 1..Len(content[i].n) : content[i].n[m] = className

\* (get\w+)\s*\([^)]*\)\s*:\s*<className> : the return type only has to START with it
getterPatternMatches(content, className) ==
    filter(content, {i \in 1..Len(content) :
                       /\ content[i].k = "getter" /\ content[i].part = "whole"
                       /\ IsPrefix(className, content[i].n[1])})

detectCircularReference(currentFile, content) ==
    LET currentClassName == classMatch(currentFile)
        getterMatch == getterPatternMatches(content, currentClassName)
    IN IF currentClassName = NoIdent THEN NoIdent
       ELSE IF ~registryImportsClass(content, currentClassName) THEN NoIdent
       ELSE IF Len(getterMatch) > 0 THEN getterNameOf(getterMatch[1].n[1])
       ELSE NoIdent

---------------------------------------------------------------------------
(* Registry files that a workspace can hold when a command starts *)

\* the generated template without the placeholder comment
NoPlaceholderRegistry ==
    << ImportTypePage, Nl,
       Nl,
       Other("docComment"), Nl,
       Other("classOpen"), Nl,
       Sp, StaticInstance, Nl,
       Sp, GlobalPageField, Nl,
       Nl,
       Sp, Other("constructor"), Nl,
       Nl,
       Sp, Other("methods"), Nl,
       ClassClose, Nl,
       Nl,
       Other("exportPageFactory"), Nl,
       Other("exportSetPage"), Nl,
       Other("exportPage"), Nl >>

\* a registry class without import line, _globalPage field and placeholder
BareRegistry ==
    << Other("docComment"), Nl,
       Other("classOpen"), Nl,
       Sp, StaticInstance, Nl,
       Nl,
       Sp, Other("constructor"), Nl,
       Nl,
       Sp, Other("methods"), Nl,
       ClassClose, Nl,
       Nl,
       Other("exportPageFactory"), Nl >>

\* two registered helpers that share one import statement
SharedImportRegistry ==
    << ImportTypePage, Nl,
       ImportTok(<<LoginPage, Login>>, <<".", "pages">>), Nl,
       Nl,
       Other("classOpen"), Nl,
       Sp, StaticInstance, Nl,
       Sp, GlobalPageField, Nl,
       Nl,
       Sp, FieldTok(propertyNameOf(LoginPage), LoginPage), Nl,
       Sp, FieldTok(propertyNameOf(Login), Login), Nl,
       Nl,
       Sp, Other("methods"), Nl,
       Nl,
       Sp, GetterTok(LoginPage, propertyNameOf(LoginPage)), Nl,
       Nl,
       Sp, GetterTok(Login, propertyNameOf(Login)), Nl,
       Nl,
       Sp, Placeholder, Nl,
       ClassClose, Nl,
       Nl,
       Other("exportPageFactory"), Nl,
       ExportTok(LoginPage), Nl,
       ExportTok(Login), Nl >>

\* the template plus one import statement that binds two classes, none registered
UnrelatedImportRegistry ==
    <<ImportTypePage, Nl, ImportTok(<<LoginPage, Login>>, <<".", "pages">>), Nl>>
        \o SubSeq(generatePageFactoryTemplate, 3, Len(generatePageFactoryTemplate))

InitialRegistries ==
    {generatePageFactoryTemplate, NoPlaceholderRegistry, BareRegistry,
     SharedImportRegistry, UnrelatedImportRegistry}

---------------------------------------------------------------------------
(* The workspace scan of delete-helper *)

RegistryFile == "PageFactory.ts"

\* isPageFactoryFile: the text declares "class PageFactory"
isPageFactoryFile(file) == file = RegistryFile

\* findTSFiles of the workspace root: the ".ts" files that are not a registry
findTSFiles(existing) == {file \in existing \cup {RegistryFile} : ~isPageFactoryFile(file)}

\* a line "import { getY } from './PageFactory';" includes "import" and className
docLineReferences(importedGetter, className) == includesSeq(importedGetter, className)

\* a reference check that detects nothing
checkPageObjectReferencesNone(pomFile, className, existing, documents) ==
    [hasExternalReferences |-> FALSE, pageFactoryUsage |-> {}]

checkPageObjectReferences(pomFile, className, existing, documents) ==
    LET allTsFiles == findTSFiles(existing) \ {pomFile}
    IN [hasExternalReferences |->
            \E g \in allTsFiles : ~isPageFactoryFile(g) /\
                \E i \in 1..Len(documents[g].imports) :
                    docLineReferences(documents[g].imports[i], className),
        pageFactoryUsage |-> {g \in allTsFiles : isPageFactoryFile(g)}]

---------------------------------------------------------------------------
(* State *)

NoCall ==
    [op |-> "none", files |-> <<>>, classes |-> <<>>, pre |-> <<>>,
     skipped |-> <<>>, added |-> <<>>, wrote |-> FALSE, repeat |-> FALSE,
     file |-> "", getter |-> NoIdent, circular |-> NoIdent, confirm |-> "none",
     asked |-> FALSE,
     prevOp |-> "none", prevPre |-> <<>>, prevFiles |-> <<>>, prevAdded |-> <<>>]

\* no command of the workspace flows has run: an empty disk and an empty store
WorkspaceIdle ==
    /\ disk = {}
    /\ config = [preventNesting |-> TRUE]
    /\ prefs = [pageFactoryPaths |-> <<>>]
    /\ now = 0
    /\ run = [cmd |-> "none", pc |-> "idle", given |-> <<>>]

Init ==
    /\ registry \in InitialRegistries
    /\ writes = 0
    /\ docs = [f \in HelperFiles |-> [exists |-> TRUE, imports |-> <<>>, consts |-> <<>>]]
    /\ last = NoCall
    /\ cmds = {}
    /\ ops = 0
    /\ WorkspaceIdle

existingFiles == {f \in HelperFiles : docs[f].exists}

\* the selections of a multi-pick: sequences of distinct files
Batches(files) ==
    UNION {{b \in [1..n -> files] : \A i, j \in 1..n : i # j => b[i] # b[j]} :
             n \in 1..MaxBatch}

---------------------------------------------------------------------------
(* Commands *)

\* add-helpers-to-registry with the files picked by the user
addPageObjectToFactory(selectedFiles) ==
    /\ ops < MaxOps
    /\ \A i \in 1..Len(selectedFiles) : selectedFiles[i] \in existingFiles
    /\ \E r \in {updatePageFactory(registry, selectedFiles)} :
          /\ registry' = r.content
          /\ writes' = IF r.wrote THEN writes + 1 ELSE writes
          /\ last' = [NoCall EXCEPT !.op = "add", !.files = selectedFiles,
                                    !.pre = registry, !.skipped = r.skipped,
                                    !.added = r.added, !.wrote = r.wrote,
                                    !.repeat = (last.op = "add" /\ last.files = selectedFiles)]
    /\ cmds' = cmds \cup {"add"}
    /\ ops' = ops + 1
    /\ UNCHANGED docs
    /\ UNCHANGED workspaceVars

\* remove-helper-from-registry with the classes picked and confirmed by the user
removePageObjectFromFactory(picked) ==
    /\ ops < MaxOps
    /\ picked # {}
    /\ \E existingPageObjects \in {extractPageObjectsFromPageFactory(registry)} :
       \E selected \in {filter(existingPageObjects,
                               {i \in 1..Len(existingPageObjects) :
                                  existingPageObjects[i] \in picked})} :
          /\ Len(existingPageObjects) # 0
          /\ picked \subseteq {existingPageObjects[i] : i \in 1..Len(existingPageObjects)}
          /\ registry' = removePOMsFromPageFactory(registry, selected)
          /\ last' = [NoCall EXCEPT !.op = "remove", !.classes = selected,
                                    !.pre = registry, !.wrote = TRUE,
                                    !.prevOp = last.op, !.prevPre = last.pre,
                                    !.prevFiles = last.files,
                                    !.prevAdded = last.added]
    /\ writes' = writes + 1
    /\ cmds' = cmds \cup {"remove"}
    /\ ops' = ops + 1
    /\ UNCHANGED docs
    /\ UNCHANGED workspaceVars

RECURSIVE removeFromAll(_, _, _)
removeFromAll(content, usages, className) ==
    IF usages = {} THEN content
    ELSE LET u == CHOOSE x \in usages : TRUE
         IN removeFromAll(removePageObjectFromPageFactory(content, className),
                          usages \ {u}, className)

\* delete-helper: refused on external references, else confirmed and unlinked
deletePageObject(pomFile, choice, finalConfirm) ==
    /\ ops < MaxOps
    /\ pomFile \in existingFiles
    /\ LET className == pickLabel(pomFile)
           referenceCheck == checkPageObjectReferences(pomFile, className,
                                                       existingFiles, docs)
           asked == referenceCheck.pageFactoryUsage # {}
           removeFromPageFactory == asked /\ choice = "Remove from PageFactory"
           deleted == /\ ~referenceCheck.hasExternalReferences
                      /\ ~(asked /\ choice = "Cancel")
                      /\ finalConfirm = "Delete"
       IN /\ ~asked => choice = "Keep in PageFactory"
          /\ registry' = IF deleted /\ removeFromPageFactory
                         THEN removeFromAll(registry, referenceCheck.pageFactoryUsage,
                                            className)
                         ELSE registry
          /\ writes' = IF deleted /\ removeFromPageFactory
                       THEN writes + Cardinality(referenceCheck.pageFactoryUsage)
                       ELSE writes
          /\ docs' = IF deleted THEN [docs EXCEPT ![pomFile].exists = FALSE] ELSE docs
          /\ last' = [NoCall EXCEPT !.op = "delete", !.file = pomFile,
                                    !.confirm = finalConfirm, !.asked = asked,
                                    !.classes = IF deleted /\ removeFromPageFactory
                                                THEN <<className>> ELSE <<>>,
                                    !.pre = registry,
                                    !.wrote = deleted /\ removeFromPageFactory]
    /\ cmds' = cmds \cup {"delete"}
    /\ ops' = ops + 1
    /\ UNCHANGED workspaceVars

\* use-helper-from-registry in the editor of currentFile
usePageObjectFromFactory(currentFile, getterName, userResponse) ==
    /\ ops < MaxOps
    /\ currentFile \in existingFiles
    /\ \E pageObjectGetters \in {extractPageObjectGetters(registry)},
          circularGetter \in {detectCircularReference(currentFile, registry)} :
       LET availableGetters == IF circularGetter # NoIdent
                               THEN filter(pageObjectGetters,
                                           {i \in 1..Len(pageObjectGetters) :
                                              pageObjectGetters[i] # circularGetter})
                               ELSE pageObjectGetters
           existingImports == docs[currentFile].imports
           needsImport == \A i \in 1..Len(existingImports) : existingImports[i] # getterName
       IN /\ Len(pageObjectGetters) # 0
          /\ \E i \in 1..Len(availableGetters) : availableGetters[i] = getterName
          /\ docs' = [docs EXCEPT
                        ![currentFile].imports =
                            IF needsImport THEN Append(@, getterName) ELSE @,
                        ![currentFile].consts =
                            IF userResponse = "Insert Here" THEN Append(@, getterName) ELSE @]
          /\ last' = [NoCall EXCEPT !.op = "use", !.file = currentFile,
                                    !.getter = getterName, !.pre = registry,
                                    !.circular = circularGetter]
    /\ cmds' = cmds \cup {"use"}
    /\ ops' = ops + 1
    /\ UNCHANGED <<registry, writes>>
    /\ UNCHANGED workspaceVars

Next ==
    \/ \E selectedFiles \in Batches(HelperFiles) : addPageObjectToFactory(selectedFiles)
    \/ \E picked \in SUBSET ClassNames : removePageObjectFromFactory(picked)
    \/ \E pomFile \in HelperFiles, finalConfirm \in {"Delete", "Cancel"} :
          deletePageObject(pomFile, "Keep in PageFactory", finalConfirm)
    \/ \E currentFile \in HelperFiles, c \in ClassNames, r \in {"Insert Here", "Cancel"} :
          usePageObjectFromFactory(currentFile, getterNameOf(c), r)

Spec == Init /\ [][Next]_vars

---------------------------------------------------------------------------
(* Observations on a registry text *)

Range(s) == {s[i] : i \in 1..Len(s)}

\* the import statements that bind cls
importsOf(content, cls) ==
    {i \in 1..Len(content) : content[i].k = "import" /\ cls \in Range(content[i].n)}

\* the private fields with the field name of cls
fieldsOf(content, cls) ==
    {i \in 1..Len(content) : content[i].k = "field"
                             /\ content[i].n[1] = propertyNameOf(cls)}

\* the accessors that return cls
gettersOf(content, cls) ==
    {i \in 1..Len(content) : content[i].k = "getter" /\ content[i].n[1] = cls}

\* the exports of the accessor of cls
exportsOf(content, cls) ==
    {i \in 1..Len(content) : content[i].k = "export" /\ content[i].n[1] = cls}

kindCount(content, kind) == Cardinality({i \in 1..Len(content) : content[i].k = kind})

\* a duplicate candidate: its class is bound by an import statement of the text,
\* or its field name is a private field of the text
duplicateIn(content, cls) == importsOf(content, cls) # {} \/ fieldsOf(content, cls) # {}

registeredComplete(content, cls) ==
    /\ importsOf(content, cls) # {}
    /\ fieldsOf(content, cls) # {}
    /\ gettersOf(content, cls) # {}
    /\ exportsOf(content, cls) # {}

\* the classes of the candidates of the last addition, in batch order
candidateClasses == [i \in 1..Len(last.files) |-> pickLabel(last.files[i])]

\* the lines that start with an import statement
importLineIndexes(lines) ==
    {i \in 1..Len(lines) : lines[i] # <<>> /\ lines[i][1].k \in {"import", "importType"}}

\* the three anchors of the generated template are present, and every helper import
\* has the form the engine writes (one class per statement)
TemplateShape(content) ==
    /\ \E i \in 1..Len(content) : IsImportStmt(content[i])
    /\ \E i \in 1..Len(content) : content[i] = GlobalPageField
    /\ \E i \in 1..Len(content) : content[i] = Placeholder
    /\ \A i \in 1..Len(content) : content[i].k = "import" => Len(content[i].n) = 1

AnchorAbsent(content) ==
    \/ ~\E i \in 1..Len(content) : content[i] = Placeholder
    \/ ~\E i \in 1..Len(content) : content[i].k = "field"
    \/ ~\E i \in 1..Len(content) : IsImportStmt(content[i])

RECURSIVE isSubsequence(_, _)
isSubsequence(a, b) ==
    IF a = <<>> THEN TRUE
    ELSE IF b = <<>> THEN FALSE
    ELSE IF Head(a) = Head(b) THEN isSubsequence(Tail(a), Tail(b))
    ELSE isSubsequence(a, Tail(b))

\* helper file f imports the accessor of its own class from a registry that
\* imports the class and exposes that accessor
circularReference(f) ==
    LET X == classMatch(f)
    IN /\ X # NoIdent
       /\ importsOf(registry, X) # {}
       /\ gettersOf(registry, X) # {}
       /\ getterNameOf(X) \in Range(docs[f].imports)

---------------------------------------------------------------------------
(* Properties of the addition engine *)

\* C1: when updatePageFactory is applied twice in a row with the same batch to the
\* same registry, the second application reports every candidate as skipped, adds
\* nothing, writes nothing and leaves the registry as the first application
\* produced it.
C1_SecondApplicationSkipsAll ==
    (last.op = "add" /\ last.repeat) =>
        /\ last.skipped = candidateClasses
        /\ last.added = <<>>
        /\ ~last.wrote
        /\ registry = last.pre

\* a batch of two was applied twice, and the first application wrote the file
C1_Witness ==
    /\ last.op = "add" /\ last.repeat
    /\ Len(last.files) = 2
    /\ writes = 1
    /\ \A i \in 1..2 : registeredComplete(registry, candidateClasses[i])

C3_AtMostOnePerClass ==
    cmds \subseteq {"add"} =>
        /\ \A cls \in ClassNames :
              /\ Cardinality(importsOf(registry, cls)) <= 1
              /\ Cardinality(fieldsOf(registry, cls)) <= 1
              /\ Cardinality(gettersOf(registry, cls)) <= 1
              /\ Cardinality(exportsOf(registry, cls)) <= 1
        /\ \A i, j \in 1..Len(last.added) : i # j => last.added[i] # last.added[j]

\* C4: an addition skips a candidate if and only if its class is bound by an
\* import statement of the registry or its field name is a private field of the
\* registry, as the registry was before the call.
C4_SkippedIffDuplicate ==
    last.op = "add" =>
        \A i \in 1..Len(last.files) :
            candidateClasses[i] \in Range(last.skipped)
                <=> duplicateIn(last.pre, candidateClasses[i])

\* C5: on a registry in the generated template shape an addition skips exactly
\* the duplicate candidates and goes on with the rest; it adds one import, one
\* private field, one accessor and one export per candidate that is not a
\* duplicate (field _loginPage and accessor getLoginPage for class LoginPage), and
\* nothing for a duplicate.
C5_OneOfEachPerNewClass ==
    (last.op = "add" /\ TemplateShape(last.pre)) =>
        /\ last.skipped = filter(candidateClasses,
                                 {i \in 1..Len(last.files) :
                                    duplicateIn(last.pre, candidateClasses[i])})
        /\ last.added = filter(candidateClasses,
                               {i \in 1..Len(last.files) :
                                  ~duplicateIn(last.pre, candidateClasses[i])})
        /\ \A kind \in {"import", "field", "getter", "export"} :
              kindCount(registry, kind) = kindCount(last.pre, kind) + Len(last.added)
        /\ \A i \in 1..Len(last.files) :
              LET cls == candidateClasses[i]
              IN IF duplicateIn(last.pre, cls)
                 THEN /\ Cardinality(importsOf(registry, cls)) = Cardinality(importsOf(last.pre, cls))
                      /\ Cardinality(fieldsOf(registry, cls)) = Cardinality(fieldsOf(last.pre, cls))
                      /\ Cardinality(gettersOf(registry, cls)) = Cardinality(gettersOf(last.pre, cls))
                      /\ Cardinality(exportsOf(registry, cls)) = Cardinality(exportsOf(last.pre, cls))
                 ELSE /\ ImportTok(<<cls>>, importPathOf(last.files[i])) \in Range(registry)
                      /\ FieldTok(<<"_">> \o classNameToCamelCase(cls), cls) \in Range(registry)
                      /\ GetterTok(cls, <<"_">> \o classNameToCamelCase(cls)) \in Range(registry)
                      /\ ExportTok(cls) \in Range(registry)
        /\ LoginPage \in Range(last.added) =>
              /\ FieldTok(<<"_", "l", "ogin", "P", "age">>, LoginPage) \in Range(registry)
              /\ getterNameOf(LoginPage) = <<"get", "L", "ogin", "P", "age">>
              /\ gettersOf(registry, LoginPage) # {}
              /\ exportsOf(registry, LoginPage) # {}

\* a batch with one duplicate and one new candidate on a template-shaped registry
C5_Witness ==
    /\ last.op = "add" /\ TemplateShape(last.pre)
    /\ last.skipped = <<Login>>
    /\ last.added = <<LoginPage>>
    /\ last.wrote

\* C6: an addition that writes the file keeps every line of the text before the
\* call as a whole line, in the same order, and puts the staged imports directly
\* after the last import line that was there.
C6_LinesPreserved ==
    (last.op = "add" /\ last.wrote) =>
        LET preLines == split(last.pre)
            postLines == split(registry)
            importLines == importLineIndexes(preLines)
        IN /\ isSubsequence(preLines, postLines)
           /\ importLines # {} =>
                 \A j \in 1..Len(last.added) :
                    /\ Max(importLines) + j <= Len(postLines)
                    /\ Len(postLines[Max(importLines) + j]) = 1
                    /\ postLines[Max(importLines) + j][1].k = "import"
                    /\ postLines[Max(importLines) + j][1].n = <<last.added[j]>>

\* C7: when an anchor is absent from the registry text, everything an addition has
\* staged (import, private field, accessor, export of each added class) is in the
\* file that is written.
C7_StagedPresentWithoutAnchors ==
    (last.op = "add" /\ AnchorAbsent(last.pre)) =>
        \A i \in 1..Len(last.files) :
            candidateClasses[i] \in Range(last.added) =>
                /\ last.wrote
                /\ ImportTok(<<candidateClasses[i]>>, importPathOf(last.files[i]))
                      \in Range(registry)
                /\ FieldTok(propertyNameOf(candidateClasses[i]), candidateClasses[i])
                      \in Range(registry)
                /\ gettersOf(registry, candidateClasses[i]) # {}
                /\ exportsOf(registry, candidateClasses[i]) # {}

---------------------------------------------------------------------------
(* Properties of the removal engines *)

\* C8: a removal takes the import binding, the private field, the accessor and the
\* export of every removed class out of the registry, and every other helper that
\* was registered completely is still registered completely.
C8_RemovalLeavesOthersComplete ==
    (last.op \in {"remove", "delete"} /\ last.classes # <<>>) =>
        /\ \A cls \in Range(last.classes) :
              /\ importsOf(registry, cls) = {}
              /\ fieldsOf(registry, cls) = {}
              /\ gettersOf(registry, cls) = {}
              /\ exportsOf(registry, cls) = {}
        /\ \A cls \in ClassNames \ Range(last.classes) :
              registeredComplete(last.pre, cls) => registeredComplete(registry, cls)

---------------------------------------------------------------------------
(* Properties of the circular reference check *)

\* C9: after add-helpers-to-registry and use-helper-from-registry commands only,
\* no helper file imports the accessor of its own class from a registry that
\* imports the class and exposes that accessor.
C9_NoCircularReference ==
    cmds \subseteq {"add", "use"} => \A f \in HelperFiles : ~circularReference(f)

\* C10: for a helper file that declares class Foo, detectCircularReference returns
\* "getFoo" when the registry imports Foo and has an accessor that returns Foo, and
\* returns nothing when the registry has no accessor that returns Foo.
C10_DetectCircularUsage ==
    last.op = "use" =>
        LET Foo == classMatch(last.file)
        IN /\ (Foo # NoIdent /\ importsOf(registry, Foo) # {} /\ gettersOf(registry, Foo) # {})
                 => last.circular = getterNameOf(Foo)
           /\ gettersOf(registry, Foo) = {} => last.circular = NoIdent

---------------------------------------------------------------------------
(* The workspace on disk.  A directory is the sequence of the names on its  *)
(* path from the filesystem root, a name is a sequence of character chunks, *)
(* and a file is a directory, a file name and the text it holds.  The text  *)
(* is the set of the signatures that the patterns of the source test for.   *)

Root == <<>>

DirA == <<<<"a">>>>

DirAB == <<<<"a">>, <<"b">>>>

DirABC == <<<<"a">>, <<"b">>, <<"c">>>>

DirHidden == <<<<"a">>, <<".", "cache">>>>

DirModules == <<<<"a">>, <<"node_modules">>>>

\* the directories of the disk, in the order fs.readdirSync lists them
Dirs == <<Root, DirA, DirHidden, DirAB, DirABC, DirModules>>

\* path.dirname: the root is its own parent
dirname(p) == IF p = Root THEN Root ELSE SubSeq(p, 1, Len(p) - 1)

\* the names a registry can be given, in the order fs.readdirSync lists them
FactoryNames == <<"MainFactory", "PageFactory">>

\* `${pageFactoryName}${extensionConfig.fileExtensions.pageFactory}`
fileItem(name) == <<name, ".ts">>

endsWith(item, ext) == item # <<>> /\ item[Len(item)] = ext

\* path.join(dir, item)
joinPath(dir, item) == [dir |-> dir, item |-> item]

NoPath == [dir |-> Root, item |-> <<>>]

\* the signatures in the text of generatePageFactoryTemplate()
TemplateText == {"class PageFactory", "PageFactory.instance", "export const pageFactory"}

\* fs.existsSync(path)
existsSync(files, p) == \E f \in files : f.dir = p.dir /\ f.item = p.item

\* fs.readFileSync(path): the text of the file
readFileSync(files, p) == (CHOOSE f \in files : f.dir = p.dir /\ f.item = p.item).text

\* fs.writeFileSync(path, text): creates the file or replaces its text
writeFileSync(files, p, text) ==
    {f \in files : ~(f.dir = p.dir /\ f.item = p.item)}
        \cup {[dir |-> p.dir, item |-> p.item, text |-> text]}

\* isPageFactoryFile: the class patterns or the instance patterns match the text
isPageFactoryByContent(files, p) ==
    LET content == readFileSync(files, p)
    IN \/ "class PageFactory" \in content
       \/ "PageFactory.instance" \in content
       \/ "export const pageFactory" \in content

\* items.find(item => item.endsWith(".ts") && isPageFactoryByContent(...)) in a
\* directory: the first registry file in listing order, NoPath when none
findPageFactoryFile(files, dir) ==
    LET hits == {i \in 1..Len(FactoryNames) :
                   /\ existsSync(files, joinPath(dir, fileItem(FactoryNames[i])))
                   /\ endsWith(fileItem(FactoryNames[i]), ".ts")
                   /\ isPageFactoryByContent(files, joinPath(dir, fileItem(FactoryNames[i])))}
    IN IF hits = {} THEN NoPath
       ELSE joinPath(dir, fileItem(FactoryNames[CHOOSE i \in hits : \A j \in hits : i <= j]))

RECURSIVE walkUp(_, _)
\* "while (currentPath !== path.dirname(currentPath))": the root is not searched
walkUp(files, currentPath) ==
    IF currentPath = dirname(currentPath) THEN NoPath
    ELSE IF findPageFactoryFile(files, currentPath) # NoPath
    THEN findPageFactoryFile(files, currentPath)
    ELSE walkUp(files, dirname(currentPath))

\* the directories directly inside dirPath, in listing order
subdirectories(dirPath) ==
    keepIdx(Dirs, {i \in 1..Len(Dirs) : Dirs[i] # Root /\ dirname(Dirs[i]) = dirPath},
            1, Len(Dirs))

\* !item.startsWith(".") && item !== "node_modules"
isWalked(item) == item[1] # "." /\ item # <<"node_modules">>

\* a walk that never looks below the selected directory
walkDownNever(files, dirPath) == NoPath

RECURSIVE walkDown(_, _)
RECURSIVE walkItems(_, _)
\* "for (const item of items)" of walkDown, over the directories still to visit
walkItems(files, items) ==
    IF items = <<>> THEN NoPath
    ELSE LET fullPath == Head(items)
             item == fullPath[Len(fullPath)]
         IN IF ~isWalked(item) THEN walkItems(files, Tail(items))
            ELSE IF findPageFactoryFile(files, fullPath) # NoPath
            THEN findPageFactoryFile(files, fullPath)
            ELSE IF walkDown(files, fullPath) # NoPath
            THEN walkDown(files, fullPath)
            ELSE walkItems(files, Tail(items))

walkDown(files, dirPath) == walkItems(files, subdirectories(dirPath))

checkForPageFactoryNesting(files, selectedPath) ==
    LET parentPath == walkUp(files, dirname(selectedPath))
        childPath == walkDown(files, selectedPath)
    IN [hasParentPageFactory |-> parentPath # NoPath,
        hasChildPageFactory |-> childPath # NoPath,
        parentPath |-> parentPath,
        childPath |-> childPath]

---------------------------------------------------------------------------
(* The preference store: the saved registry paths of globalState *)

\* path.basename(path.dirname(filePath)): the name of the directory of the file
basenameOfDir(p) == IF p.dir = Root THEN <<>> ELSE p.dir[Len(p.dir)]

\* an omitted label (undefined); the empty label is falsy like undefined
NoLabel == <<>>

RECURSIVE insertByLastUsed(_, _)
insertByLastUsed(sorted, e) ==
    IF sorted = <<>> THEN <<e>>
    ELSE IF Head(sorted).lastUsed >= e.lastUsed
    THEN <<Head(sorted)>> \o insertByLastUsed(Tail(sorted), e)
    ELSE <<e>> \o sorted

\* a list that is returned in the order it is stored in
sortNothing(paths) == paths

RECURSIVE sortByLastUsed(_)
\* saved.sort((a, b) => b.lastUsed - a.lastUsed): stable, most recently used first
sortByLastUsed(paths) ==
    IF paths = <<>> THEN <<>>
    ELSE insertByLastUsed(sortByLastUsed(SubSeq(paths, 1, Len(paths) - 1)),
                          paths[Len(paths)])

getSavedPageFactoryPaths(store) == sortByLastUsed(store.pageFactoryPaths)

\* paths.findIndex(p => p.path === filePath), 0 when absent
findIndex(paths, filePath) ==
    LET hits == {i \in 1..Len(paths) : paths[i].path = filePath}
    IN IF hits = {} THEN 0 ELSE CHOOSE i \in hits : \A j \in hits : i <= j

\* the label of the entry: "label || path.basename(path.dirname(filePath))"
labelOrDirectoryName(label, filePath) ==
    IF label # NoLabel THEN label ELSE basenameOfDir(filePath)

\* addPageFactoryPath(filePath, label?) at time t: add or replace the entry
addPageFactoryPath(store, filePath, label, t) ==
    LET paths == getSavedPageFactoryPaths(store)
        existingIndex == findIndex(paths, filePath)
        pathEntry == [path |-> filePath,
                      label |-> labelOrDirectoryName(label, filePath),
                      lastUsed |-> t]
    IN [store EXCEPT !.pageFactoryPaths =
            IF existingIndex > 0
            THEN [paths EXCEPT ![existingIndex] = pathEntry]
            ELSE Append(paths, pathEntry)]

\* removePageFactoryPath(filePath)
removePageFactoryPath(store, filePath) ==
    LET paths == getSavedPageFactoryPaths(store)
    IN [store EXCEPT !.pageFactoryPaths =
            filter(paths, {i \in 1..Len(paths) : paths[i].path # filePath})]

---------------------------------------------------------------------------
(* create-registry, one step per prompt of createPageFactory *)

NoFolder == <<<<>>>>

NoNesting ==
    [hasParentPageFactory |-> FALSE, hasChildPageFactory |-> FALSE,
     parentPath |-> NoPath, childPath |-> NoPath]

\* the helper class file of the workspace
HelperName == "LoginPage"

\* the paths a file of the workspace can have
AllPaths ==
    {joinPath(Dirs[i], fileItem(n)) :
       i \in 1..Len(Dirs), n \in {FactoryNames[k] : k \in 1..Len(FactoryNames)} \cup {HelperName}}

\* the label the user gave to each saved path, NoLabel when the user gave none
NoneGiven == [p \in AllPaths |-> NoLabel]

Idle == [cmd |-> "none", pc |-> "idle", given |-> NoneGiven]

\* the command returns: its locals stay visible as the record of the last run
returned(r) == [r EXCEPT !.pc = "idle"]

\* the command palette runs snapwright.createPageFactory
createPageFactory ==
    /\ run.pc = "idle"
    /\ ops < MaxOps
    /\ ops' = ops + 1
    /\ run' = [cmd |-> "create", pc |-> "selectDirectory", selectedFolder |-> NoFolder,
               nestingCheck |-> NoNesting, parentAction |-> "none", childAction |-> "none",
               pageFactoryName |-> "", overwriteAction |-> "none",
               existed |-> FALSE, written |-> NoPath, diskBefore |-> disk,
               given |-> run.given]
    /\ UNCHANGED <<disk, config, prefs, now>>
    /\ UNCHANGED engineVars

\* "Step 1": the directory picker returns, then "Step 1.5" checks for nesting
createSelectDirectory(selectedFolder) ==
    /\ run.cmd = "create" /\ run.pc = "selectDirectory"
    /\ IF selectedFolder = NoFolder
       THEN run' = returned(run)
       ELSE \E nestingCheck \in {IF config.preventNesting
                                 THEN checkForPageFactoryNesting(disk, selectedFolder)
                                 ELSE NoNesting} :
               run' = [run EXCEPT
                         !.selectedFolder = selectedFolder,
                         !.nestingCheck = nestingCheck,
                         !.parentAction = "none",
                         !.childAction = "none",
                         !.pc = IF nestingCheck.hasParentPageFactory THEN "parentWarning"
                                ELSE IF nestingCheck.hasChildPageFactory THEN "childWarning"
                                ELSE "nameInput"]
    /\ UNCHANGED <<disk, config, prefs, now, ops>>
    /\ UNCHANGED engineVars

\* the answer to "A PageFactory already exists in a parent directory"
createParentWarning(action) ==
    /\ run.cmd = "create" /\ run.pc = "parentWarning"
    /\ run' = [run EXCEPT
                 !.parentAction = action,
                 !.pc = IF action = "Cancel" THEN "idle"
                        ELSE IF action = "Choose Different Location" THEN "selectDirectory"
                        ELSE IF run.nestingCheck.hasChildPageFactory THEN "childWarning"
                        ELSE "nameInput"]
    /\ UNCHANGED <<disk, config, prefs, now, ops>>
    /\ UNCHANGED engineVars

\* the answer to "A PageFactory already exists in a subdirectory"
createChildWarning(action) ==
    /\ run.cmd = "create" /\ run.pc = "childWarning"
    /\ run' = [run EXCEPT
                 !.childAction = action,
                 !.pc = IF action = "Cancel" THEN "idle"
                        ELSE IF action = "Choose Different Location" THEN "selectDirectory"
                        ELSE "nameInput"]
    /\ UNCHANGED <<disk, config, prefs, now, ops>>
    /\ UNCHANGED engineVars

\* "Step 5" and "Step 6": the template is written and the path is saved
createWrite(r, pageFactoryPath) ==
    /\ disk' = writeFileSync(disk, pageFactoryPath, TemplateText)
    /\ prefs' = addPageFactoryPath(prefs, pageFactoryPath, <<r.pageFactoryName>>, now)
    /\ now' = now + 1
    /\ run' = [r EXCEPT !.pc = "idle", !.written = pageFactoryPath,
                        !.existed = existsSync(disk, pageFactoryPath),
                        !.given = [@ EXCEPT ![pageFactoryPath] = <<r.pageFactoryName>>]]

\* "Step 2" and "Step 3": the name box returns; an existing file asks for more
createNameInput(pageFactoryName) ==
    /\ run.cmd = "create" /\ run.pc = "nameInput"
    /\ LET pageFactoryPath == joinPath(run.selectedFolder, fileItem(pageFactoryName))
           named == [run EXCEPT !.pageFactoryName = pageFactoryName]
       IN IF pageFactoryName = ""
          THEN run' = returned(run) /\ UNCHANGED <<disk, prefs, now>>
          ELSE IF existsSync(disk, pageFactoryPath)
          THEN run' = [named EXCEPT !.pc = "overwriteWarning"] /\ UNCHANGED <<disk, prefs, now>>
          ELSE createWrite(named, pageFactoryPath)
    /\ UNCHANGED <<config, ops>>
    /\ UNCHANGED engineVars

\* the answer to "A PageFactory named ... already exists in this directory"
createOverwriteWarning(action) ==
    /\ run.cmd = "create" /\ run.pc = "overwriteWarning"
    /\ LET pageFactoryPath == joinPath(run.selectedFolder, fileItem(run.pageFactoryName))
           answered == [run EXCEPT !.overwriteAction = action]
       IN IF action = "Cancel"
          THEN run' = returned(answered) /\ UNCHANGED <<disk, prefs, now>>
          ELSE IF action = "Overwrite Existing"
          THEN createWrite(answered, pageFactoryPath)
          ELSE run' = [answered EXCEPT !.pc = "nameInput"] /\ UNCHANGED <<disk, prefs, now>>
    /\ UNCHANGED <<config, ops>>
    /\ UNCHANGED engineVars

---------------------------------------------------------------------------
(* The create-registry specification *)

\* the engine is not part of these flows: one registry text, no engine call
\* the TypeScript documents that can be open in the active editor
Editors == {"specA", "specABC"}

EngineIdle ==
    /\ registry = generatePageFactoryTemplate
    /\ writes = 0
    /\ docs = [f \in HelperFiles \cup Editors |->
                 [exists |-> TRUE, imports |-> <<>>, consts |-> <<>>]]
    /\ last = NoCall
    /\ cmds = {}

\* a registry file as createPageFactory writes it
registryFile(dir, name) == [dir |-> dir, item |-> fileItem(name), text |-> TemplateText]

InitCreate ==
    /\ EngineIdle
    /\ ops = 0
    /\ disk \in {{}, {registryFile(DirAB, "PageFactory")}}
    /\ config \in {[preventNesting |-> b] : b \in BOOLEAN}
    /\ prefs = [pageFactoryPaths |-> <<>>]
    /\ now = 0
    /\ run = Idle

NestingActions == {"Continue Anyway", "Choose Different Location", "Cancel", "undefined"}

OverwriteActions == {"Choose Different Name", "Overwrite Existing", "Cancel", "undefined"}

NextCreate ==
    \/ createPageFactory
    \/ \E selectedFolder \in Range(Dirs) \cup {NoFolder} : createSelectDirectory(selectedFolder)
    \/ \E action \in NestingActions : createParentWarning(action)
    \/ \E action \in NestingActions : createChildWarning(action)
    \/ \E pageFactoryName \in Range(FactoryNames) \cup {""} : createNameInput(pageFactoryName)
    \/ \E action \in OverwriteActions : createOverwriteWarning(action)

SpecCreate == InitCreate /\ [][NextCreate]_vars

---------------------------------------------------------------------------
(* Properties of create-registry and of the nesting check *)

\* the registry files of a disk
registriesOn(files) ==
    {joinPath(f.dir, f.item) : f \in {g \in files : isPageFactoryByContent(files, g)}}

isProperAncestor(a, d) == Len(a) < Len(d) /\ SubSeq(d, 1, Len(a)) = a

\* every directory name from below a down to d is one that the walk enters
reachableBelow(a, d) ==
    /\ isProperAncestor(a, d)
    /\ \A k \in (Len(a) + 1)..Len(d) : isWalked(d[k])

\* the nesting check of the command in progress was made on the disk as it is
nestingChecked ==
    /\ run.cmd = "create"
    /\ config.preventNesting
    /\ run.pc \in {"parentWarning", "childWarning", "nameInput", "overwriteWarning"}

\* C11: with nesting prevention active, a create-registry run for which nesting
\* was detected writes the registry file only if every nesting warning it showed
\* was answered "Continue Anyway"; a cancelled or dismissed warning writes nothing.
C11_NestedWriteOnlyAfterOverride ==
    (run.cmd = "create" /\ config.preventNesting /\ run.written # NoPath) =>
        /\ run.nestingCheck.hasParentPageFactory => run.parentAction = "Continue Anyway"
        /\ run.nestingCheck.hasChildPageFactory => run.childAction = "Continue Anyway"

---------------------------------------------------------------------------
(* add-helpers-to-registry with the saved-path menus, one step per prompt of *)
(* addPageObjectToFactory, selectPageFactoryPath, browseForPageFactory and   *)
(* editSavedPaths                                                            *)

\* the files of the workspace of these flows
FactoryAB == joinPath(DirAB, fileItem("PageFactory"))

FactoryA == joinPath(DirA, fileItem("MainFactory"))

HelperA == joinPath(DirA, fileItem(HelperName))

WorkspaceFiles == {FactoryAB, FactoryA, HelperA}

\* the text of a helper class file
HelperText == {"export class LoginPage"}

helperFile(p) == [dir |-> p.dir, item |-> p.item, text |-> HelperText]

\* the clock of Date.now() stops at MaxNow: no entry is saved after it
MaxNow == 3

\* the labels a user types
UserLabel == <<"Checkout">>

NewLabel == <<"Renamed">>

\* item.endsWith(".page.ts")
endsWithPageTs(item) ==
    Len(item) >= 2 /\ item[Len(item) - 1] = ".page" /\ item[Len(item)] = ".ts"

\* item.includes(".page.")
includesPage(item) == \E i \in 1..(Len(item) - 1) : item[i] = ".page"

\* findTSFiles(dirPath): every ".ts" file below dirPath that is not named
\* "PageFactory.ts"
findTSFilesBelow(files, dirPath) ==
    {joinPath(f.dir, f.item) :
       f \in {g \in files :
                /\ g.dir = dirPath \/ isProperAncestor(dirPath, g.dir)
                /\ endsWith(g.item, ".ts")
                /\ g.item # fileItem("PageFactory")
                /\ endsWithPageTs(g.item) \/ ~includesPage(g.item)}}

\* content.includes("class PageFactory") || content.includes("PageFactory")
includesPageFactory(text) == text \cap TemplateText # {}

\* fs.writeFileSync of updatePageFactory: the classes picked are in the text
registerIn(files, pageFactoryPath, selectedFiles) ==
    writeFileSync(files, pageFactoryPath,
                  readFileSync(files, pageFactoryPath)
                      \cup {f.item[1] : f \in selectedFiles})

\* the command returns null or undefined at a prompt or for a missing prerequisite
aborted(r) == [r EXCEPT !.pc = "idle", !.outcome = "aborted"]

\* the commands that start with selectPageFactoryPath()
SelectingCommands == {"add", "deleteFactory"}

\* selectPageFactoryPath returns selectedPath to addPageObjectToFactory or to
\* deletePageFactory, which goes on to its next prompt
handedOver(r, selectedPath) ==
    [r EXCEPT !.pc = IF r.cmd = "add" THEN "selectDirectory" ELSE "deleteConfirm",
              !.pageFactoryPath = selectedPath]

\* editSavedPaths() starts: with no saved path it goes on in browseForPageFactory
editSavedPathsEntry(store) ==
    IF Len(getSavedPageFactoryPaths(store)) = 0 THEN "browseDialog" ELSE "editMenu"

isSaved(store, filePath) == findIndex(getSavedPageFactoryPaths(store), filePath) > 0

\* the command palette runs snapwright.addPOMToFactory
addPageObjectToFactoryCommand ==
    /\ run.pc = "idle"
    /\ ops < MaxOps
    /\ ops' = ops + 1
    /\ run' = [cmd |-> "add", pc |-> "menu", selectedPath |-> NoPath,
               pageFactoryPath |-> NoPath, selectedFolder |-> NoFolder,
               outcome |-> "running", warned |-> FALSE,
               diskBefore |-> disk, prefsBefore |-> prefs, given |-> run.given]
    /\ UNCHANGED <<disk, config, prefs, now>>
    /\ UNCHANGED engineVars

MenuSelections ==
    {[label |-> l, description |-> NoPath] : l \in {"undefined", "browse", "edit"}}
        \cup {[label |-> "saved", description |-> q] : q \in WorkspaceFiles}

\* the answer to the quick pick of selectPageFactoryPath
selectPageFactoryPath(selection) ==
    /\ run.cmd \in SelectingCommands /\ run.pc = "menu"
    /\ selection.label = "saved" => isSaved(prefs, selection.description) /\ now < MaxNow
    /\ IF selection.label = "undefined"
       THEN run' = aborted(run) /\ UNCHANGED <<prefs, now>>
       ELSE IF selection.label = "browse"
       THEN run' = [run EXCEPT !.pc = "browseDialog"] /\ UNCHANGED <<prefs, now>>
       ELSE IF selection.label = "edit"
       THEN run' = [run EXCEPT !.pc = editSavedPathsEntry(prefs)] /\ UNCHANGED <<prefs, now>>
       ELSE IF ~existsSync(disk, selection.description)
       THEN /\ run' = [run EXCEPT !.pc = "staleWarning",
                                  !.selectedPath = selection.description,
                                  !.warned = TRUE]
            /\ UNCHANGED <<prefs, now>>
       ELSE /\ prefs' = addPageFactoryPath(prefs, selection.description, NoLabel, now)
            /\ now' = now + 1
            /\ run' = handedOver(run, selection.description)
    /\ UNCHANGED <<disk, config, ops>>
    /\ UNCHANGED engineVars

\* the answer to "PageFactory file not found"
staleWarning(choice) ==
    /\ run.cmd \in SelectingCommands /\ run.pc = "staleWarning"
    /\ IF choice = "Remove from list"
       THEN /\ prefs' = removePageFactoryPath(prefs, run.selectedPath)
            /\ run' = [run EXCEPT !.pc = "menu",
                                  !.given = [@ EXCEPT ![run.selectedPath] = NoLabel]]
       ELSE IF choice = "Browse for new location"
       THEN run' = [run EXCEPT !.pc = "browseDialog"] /\ UNCHANGED prefs
       ELSE run' = aborted(run) /\ UNCHANGED prefs
    /\ UNCHANGED <<disk, config, now, ops>>
    /\ UNCHANGED engineVars

\* the file dialog of browseForPageFactory returns
browseForPageFactory(selectedPath) ==
    /\ run.cmd \in SelectingCommands /\ run.pc = "browseDialog"
    /\ selectedPath # NoPath => existsSync(disk, selectedPath)
    /\ IF selectedPath = NoPath
       THEN run' = aborted(run)
       ELSE IF ~includesPageFactory(readFileSync(disk, selectedPath))
       THEN run' = [run EXCEPT !.pc = "notFactoryWarning", !.selectedPath = selectedPath]
       ELSE run' = [run EXCEPT !.pc = "labelInput", !.selectedPath = selectedPath]
    /\ UNCHANGED <<disk, config, prefs, now, ops>>
    /\ UNCHANGED engineVars

\* the answer to "The selected file doesn't appear to be a PageFactory"
browseProceed(proceed) ==
    /\ run.cmd \in SelectingCommands /\ run.pc = "notFactoryWarning"
    /\ run' = IF proceed = "Yes" THEN [run EXCEPT !.pc = "labelInput"] ELSE aborted(run)
    /\ UNCHANGED <<disk, config, prefs, now, ops>>
    /\ UNCHANGED engineVars

\* the label box of browseForPageFactory returns: "label || undefined" is saved
browseLabel(label) ==
    /\ run.cmd \in SelectingCommands /\ run.pc = "labelInput"
    /\ now < MaxNow
    /\ prefs' = addPageFactoryPath(prefs, run.selectedPath, label, now)
    /\ now' = now + 1
    /\ run' = [handedOver(run, run.selectedPath) EXCEPT
                 !.given = IF label # NoLabel THEN [@ EXCEPT ![run.selectedPath] = label]
                           ELSE @]
    /\ UNCHANGED <<disk, config, ops>>
    /\ UNCHANGED engineVars

EditSelections ==
    {[label |-> l, description |-> NoPath] : l \in {"undefined", "clear"}}
        \cup {[label |-> "saved", description |-> q] : q \in WorkspaceFiles}

\* the answer to the quick pick of editSavedPaths
editSavedPaths(selection) ==
    /\ run.cmd \in SelectingCommands /\ run.pc = "editMenu"
    /\ selection.label = "saved" => isSaved(prefs, selection.description)
    /\ run' = IF selection.label = "undefined" THEN aborted(run)
              ELSE IF selection.label = "clear" THEN [run EXCEPT !.pc = "clearConfirm"]
              ELSE [run EXCEPT !.pc = "editAction", !.selectedPath = selection.description]
    /\ UNCHANGED <<disk, config, prefs, now, ops>>
    /\ UNCHANGED engineVars

\* the answer to "Are you sure you want to clear all saved PageFactory paths?"
editClearAll(confirm) ==
    /\ run.cmd \in SelectingCommands /\ run.pc = "clearConfirm"
    /\ IF confirm = "Yes"
       THEN /\ prefs' = [prefs EXCEPT !.pageFactoryPaths = <<>>]
            /\ run' = [run EXCEPT !.pc = "menu", !.given = NoneGiven]
       ELSE /\ run' = [run EXCEPT !.pc = "menu"]
            /\ UNCHANGED prefs
    /\ UNCHANGED <<disk, config, now, ops>>
    /\ UNCHANGED engineVars

\* the answer to the quick pick "Manage: ..." of editSavedPaths
editAction(action) ==
    /\ run.cmd \in SelectingCommands /\ run.pc = "editAction"
    /\ action = "Use this path" => now < MaxNow
    /\ IF action = "Edit label"
       THEN run' = [run EXCEPT !.pc = "newLabelInput"] /\ UNCHANGED <<prefs, now>>
       ELSE IF action = "Use this path"
       THEN /\ prefs' = addPageFactoryPath(prefs, run.selectedPath, NoLabel, now)
            /\ now' = now + 1
            /\ run' = handedOver(run, run.selectedPath)
       ELSE IF action = "Remove from list"
       THEN /\ prefs' = removePageFactoryPath(prefs, run.selectedPath)
            /\ run' = [run EXCEPT !.pc = editSavedPathsEntry(prefs'),
                                  !.given = [@ EXCEPT ![run.selectedPath] = NoLabel]]
            /\ UNCHANGED now
       ELSE run' = [run EXCEPT !.pc = editSavedPathsEntry(prefs)] /\ UNCHANGED <<prefs, now>>
    /\ UNCHANGED <<disk, config, ops>>
    /\ UNCHANGED engineVars

\* the box "Enter new label" returns
editLabel(newLabel) ==
    /\ run.cmd \in SelectingCommands /\ run.pc = "newLabelInput"
    /\ newLabel # NoLabel => now < MaxNow
    /\ IF newLabel # NoLabel
       THEN /\ prefs' = addPageFactoryPath(prefs, run.selectedPath, newLabel, now)
            /\ now' = now + 1
            /\ run' = [run EXCEPT !.pc = editSavedPathsEntry(prefs'),
                                  !.given = [@ EXCEPT ![run.selectedPath] = newLabel]]
       ELSE /\ run' = [run EXCEPT !.pc = editSavedPathsEntry(prefs)]
            /\ UNCHANGED <<prefs, now>>
    /\ UNCHANGED <<disk, config, ops>>
    /\ UNCHANGED engineVars

\* the directory picker of addPageObjectToFactory returns; without ".ts" files
\* below the directory the command ends with a warning
addSelectDirectory(selectedFolder) ==
    /\ run.cmd = "add" /\ run.pc = "selectDirectory"
    /\ run' = IF selectedFolder = NoFolder THEN aborted(run)
              ELSE IF findTSFilesBelow(disk, selectedFolder) = {}
              THEN aborted([run EXCEPT !.selectedFolder = selectedFolder])
              ELSE [run EXCEPT !.pc = "pickFiles", !.selectedFolder = selectedFolder]
    /\ UNCHANGED <<disk, config, prefs, now, ops>>
    /\ UNCHANGED engineVars

\* the multi-pick of the candidate files returns; updatePageFactory runs, and a
\* registry file that cannot be read ends the command with an error message
addPickFiles(selectedFiles) ==
    /\ run.cmd = "add" /\ run.pc = "pickFiles"
    /\ selectedFiles \subseteq findTSFilesBelow(disk, run.selectedFolder)
    /\ IF selectedFiles = {}
       THEN run' = aborted(run) /\ UNCHANGED disk
       ELSE IF ~existsSync(disk, run.pageFactoryPath)
       THEN run' = [run EXCEPT !.pc = "idle", !.outcome = "failed"] /\ UNCHANGED disk
       ELSE /\ disk' = registerIn(disk, run.pageFactoryPath, selectedFiles)
            /\ run' = [run EXCEPT !.pc = "idle", !.outcome = "done"]
    /\ UNCHANGED <<config, prefs, now, ops>>
    /\ UNCHANGED engineVars

RECURSIVE findPageFactoryWalk(_, _)
RECURSIVE findPageFactoryItems(_, _)
\* "for (const item of items)" of walkDir in findPageFactory, over directories
findPageFactoryItems(files, items) ==
    IF items = <<>> THEN <<>>
    ELSE LET fullPath == Head(items)
         IN (IF isWalked(fullPath[Len(fullPath)])
             THEN findPageFactoryWalk(files, fullPath) ELSE <<>>)
                \o findPageFactoryItems(files, Tail(items))

\* walkDir of findPageFactory: the files with item === "PageFactory.ts"
findPageFactoryWalk(files, currentPath) ==
    (IF existsSync(files, joinPath(currentPath, fileItem("PageFactory")))
     THEN <<joinPath(currentPath, fileItem("PageFactory"))>> ELSE <<>>)
        \o findPageFactoryItems(files, subdirectories(currentPath))

\* findPageFactory(workspacePath): files[0], NoPath for undefined
findPageFactory(files, workspacePath) ==
    LET found == findPageFactoryWalk(files, workspacePath)
    IN IF Len(found) > 0 THEN found[1] ELSE NoPath

\* extractPageObjectGetters: the helpers registered in the text of the registry
registeredGetters(files, pageFactoryPath) == readFileSync(files, pageFactoryPath) \ TemplateText

\* editor.document.uri.fsPath of the documents
editorPath(editor) ==
    IF editor = "specA" THEN joinPath(DirA, fileItem("login.spec"))
    ELSE joinPath(DirABC, fileItem("checkout.spec"))

\* the length of the longest common prefix of two directories
RECURSIVE commonPrefix(_, _)
commonPrefix(d, e) ==
    IF d = <<>> \/ e = <<>> \/ Head(d) # Head(e) THEN 0
    ELSE 1 + commonPrefix(Tail(d), Tail(e))

\* the first ".ts" of the file name is cut out: replace(".ts", "")
replaceTs(item) ==
    IF \E i \in 1..Len(item) : item[i] = ".ts"
    THEN LET first == CHOOSE i \in 1..Len(item) :
                          item[i] = ".ts" /\ \A j \in 1..(i - 1) : item[j] # ".ts"
         IN SubSeq(item, 1, first - 1) \o SubSeq(item, first + 1, Len(item))
    ELSE item

\* getRelativePageFactoryPath: path.relative(path.dirname(currentFilePath),
\* pageFactoryPath) without ".ts": the number of "..", the directories below,
\* and the file name
getRelativePageFactoryPath(currentFilePath, pageFactoryPath) ==
    LET common == commonPrefix(currentFilePath.dir, pageFactoryPath.dir)
    IN [up |-> Len(currentFilePath.dir) - common,
        down |-> SubSeq(pageFactoryPath.dir, common + 1, Len(pageFactoryPath.dir)),
        base |-> replaceTs(pageFactoryPath.item)]

\* `import { ${getterName} } from '${...}';`
importLine(getterName, from) == [n |-> <<getterName>>, from |-> from]

\* a pattern that matches no import line
fromNoModule(line) == FALSE

\* /from\s*['"][^'"]*PageFactory['"]/: the module path ends with PageFactory
fromPageFactory(line) == endsWith(line.from.base, "PageFactory")

\* extractExistingImportsFromDocument: the names between the braces of the
\* import lines whose module path ends with PageFactory
RECURSIVE extractExistingImportsFromDocument(_)
extractExistingImportsFromDocument(imports) ==
    IF imports = <<>> THEN <<>>
    ELSE (IF fromPageFactory(Head(imports)) THEN Head(imports).n ELSE <<>>)
            \o extractExistingImportsFromDocument(Tail(imports))

\* the command palette runs snapwright.usePageObjectFromFactory: without a
\* registry, or without a getter in it, the command ends with an error message
usePageObjectFromFactoryCommand(editor) ==
    /\ run.pc = "idle"
    /\ ops < MaxOps
    /\ ops' = ops + 1
    /\ \E pageFactoryPath \in {findPageFactory(disk, Root)} :
         run' = [cmd |-> "use", selectedPath |-> NoPath,
                 pageFactoryPath |-> pageFactoryPath, selectedFolder |-> NoFolder,
                 pc |-> IF pageFactoryPath = NoPath
                           \/ registeredGetters(disk, pageFactoryPath) = {}
                        THEN "idle" ELSE "pickGetter",
                 outcome |-> IF pageFactoryPath = NoPath THEN "notFound"
                             ELSE IF registeredGetters(disk, pageFactoryPath) = {}
                             THEN "failed" ELSE "running",
                 warned |-> FALSE, editor |-> editor, docsBefore |-> docs,
                 getterName |-> "undefined", hasPageParam |-> FALSE,
                 diskBefore |-> disk, prefsBefore |-> prefs, given |-> run.given]
    /\ UNCHANGED <<disk, config, prefs, now>>
    /\ UNCHANGED engineVars

\* the quick pick of the initialization patterns returns: the import line is
\* inserted in the document unless the document imports the getter already,
\* and the "Insert Here" message is shown
usePickGetter(selected, hasPageParam) ==
    /\ run.cmd = "use" /\ run.pc = "pickGetter"
    /\ selected \in registeredGetters(disk, run.pageFactoryPath) \cup {"undefined"}
    /\ IF selected = "undefined"
       THEN /\ run' = aborted(run)
            /\ UNCHANGED docs
       ELSE \E existingImports \in
                 {extractExistingImportsFromDocument(docs[run.editor].imports)} :
            LET needsImport == selected \notin Range(existingImports)
                from == getRelativePageFactoryPath(editorPath(run.editor),
                                                   run.pageFactoryPath)
            IN /\ docs' = [docs EXCEPT ![run.editor].imports =
                              IF needsImport THEN Append(@, importLine(selected, from))
                              ELSE @]
               /\ run' = [run EXCEPT !.pc = "insertHere", !.getterName = selected,
                                     !.hasPageParam = hasPageParam]
    /\ UNCHANGED <<disk, config, prefs, now, ops>>
    /\ UNCHANGED <<registry, writes, last, cmds>>

\* the answer to "place your cursor ... and click Insert Here": the const
\* assignment is inserted at the cursor
useInsertHere(userResponse) ==
    /\ run.cmd = "use" /\ run.pc = "insertHere"
    /\ IF userResponse # "Insert Here"
       THEN /\ run' = aborted(run)
            /\ UNCHANGED docs
       ELSE /\ docs' = [docs EXCEPT ![run.editor].consts =
                           Append(@, [n |-> run.getterName, page |-> run.hasPageParam])]
            /\ run' = [run EXCEPT !.pc = "idle", !.outcome = "done"]
    /\ UNCHANGED <<disk, config, prefs, now, ops>>
    /\ UNCHANGED <<registry, writes, last, cmds>>

\* the command palette runs snapwright.deletePageFactory
deletePageFactoryCommand ==
    /\ run.pc = "idle"
    /\ ops < MaxOps
    /\ ops' = ops + 1
    /\ run' = [cmd |-> "deleteFactory", pc |-> "menu", selectedPath |-> NoPath,
               pageFactoryPath |-> NoPath, selectedFolder |-> NoFolder,
               outcome |-> "running", warned |-> FALSE, confirm |-> "none",
               diskBefore |-> disk, prefsBefore |-> prefs, given |-> run.given]
    /\ UNCHANGED <<disk, config, prefs, now>>
    /\ UNCHANGED engineVars

\* fs.unlinkSync(path)
unlinkSync(files, p) == {f \in files : ~(f.dir = p.dir /\ f.item = p.item)}

\* a confirmation that takes every answer for the confirming option
confirmedAlways(answer, option) == TRUE

\* the answer to a confirmation is the confirming option
confirmed(answer, option) == answer = option

\* the answer to "Are you sure you want to delete the PageFactory ...?"
deletePageFactoryConfirm(confirm) ==
    /\ run.cmd = "deleteFactory" /\ run.pc = "deleteConfirm"
    /\ IF ~confirmed(confirm, "Yes, Delete")
       THEN run' = aborted([run EXCEPT !.confirm = confirm]) /\ UNCHANGED <<disk, prefs>>
       ELSE /\ disk' = IF existsSync(disk, run.pageFactoryPath)
                       THEN unlinkSync(disk, run.pageFactoryPath) ELSE disk
            /\ prefs' = removePageFactoryPath(prefs, run.pageFactoryPath)
            /\ run' = [run EXCEPT !.pc = "idle", !.outcome = "done", !.confirm = confirm,
                                  !.given = [@ EXCEPT ![run.pageFactoryPath] = NoLabel]]
    /\ UNCHANGED <<config, now, ops>>
    /\ UNCHANGED engineVars

\* a saved entry as browseForPageFactory writes it
savedEntry(filePath, label, t) == [path |-> filePath, label |-> label, lastUsed |-> t]

\* the workspace has a registry named MainFactory.ts and a helper class; the
\* registry /a/b/PageFactory.ts was saved under the label "Checkout" and may
\* have been deleted since
InitSelect ==
    /\ EngineIdle
    /\ ops = 0
    /\ disk \in {{registryFile(DirA, "MainFactory"), helperFile(HelperA)} \cup d :
                   d \in {{}, {registryFile(DirAB, "PageFactory")}}}
    /\ config = [preventNesting |-> TRUE]
    /\ prefs = [pageFactoryPaths |-> <<savedEntry(FactoryAB, UserLabel, 0)>>]
    /\ now = 1
    /\ run = [cmd |-> "none", pc |-> "idle", selectedPath |-> NoPath,
              pageFactoryPath |-> NoPath, selectedFolder |-> NoFolder,
              outcome |-> "none", warned |-> FALSE,
              diskBefore |-> disk, prefsBefore |-> prefs,
              given |-> [NoneGiven EXCEPT ![FactoryAB] = UserLabel]]

NextSelect ==
    \/ addPageObjectToFactoryCommand
    \/ \E selection \in MenuSelections : selectPageFactoryPath(selection)
    \/ \E choice \in {"Remove from list", "Browse for new location", "Cancel", "undefined"} :
          staleWarning(choice)
    \/ \E selectedPath \in WorkspaceFiles \cup {NoPath} : browseForPageFactory(selectedPath)
    \/ \E proceed \in {"Yes", "No", "undefined"} : browseProceed(proceed)
    \/ \E label \in {NoLabel, NewLabel} : browseLabel(label)
    \/ \E selection \in EditSelections : editSavedPaths(selection)
    \/ \E confirm \in {"Yes", "No", "undefined"} : editClearAll(confirm)
    \/ \E action \in {"Edit label", "Use this path", "Remove from list", "undefined"} :
          editAction(action)
    \/ \E newLabel \in {NoLabel, NewLabel} : editLabel(newLabel)
    \/ \E selectedFolder \in {DirA, DirABC, NoFolder} : addSelectDirectory(selectedFolder)
    \/ \E selectedFiles \in SUBSET {FactoryA, HelperA} : addPickFiles(selectedFiles)
    \/ \E editor \in Editors : usePageObjectFromFactoryCommand(editor)
    \/ \E selected \in {"LoginPage", "MainFactory", "undefined"}, hasPageParam \in BOOLEAN :
          usePickGetter(selected, hasPageParam)
    \/ \E userResponse \in {"Insert Here", "Cancel", "undefined"} : useInsertHere(userResponse)

SpecSelect == InitSelect /\ [][NextSelect]_vars

\* most recently used first
sortedByLastUsed(paths) ==
    \A i \in 1..Len(paths) : \A j \in i..Len(paths) :
        paths[i].lastUsed >= paths[j].lastUsed

\* C26: whatever was saved, selected, removed or cleared, the list of the saved
\* registries is in descending order of last use, and a registry that has just
\* been saved or selected is the first of the list
C26_ListMostRecentFirst ==
    [][/\ sortedByLastUsed(getSavedPageFactoryPaths(prefs'))
       /\ now' = now + 1 =>
             /\ getSavedPageFactoryPaths(prefs') # <<>>
             /\ getSavedPageFactoryPaths(prefs')[1].lastUsed = now]_vars

\* several registries are saved, and the one used last is not the first one
\* in the store
C26_Witness ==
    /\ Len(prefs.pageFactoryPaths) >= 2
    /\ getSavedPageFactoryPaths(prefs)[1].lastUsed = now - 1
    /\ prefs.pageFactoryPaths[1].lastUsed < now - 1

---------------------------------------------------------------------------
(* use-helper-from-registry run again and again on the documents of the    *)
(* editors, in a workspace whose registries hold helpers                    *)

\* a registry file with the helpers of the classes registered in it
registryWith(dir, name, classes) ==
    [dir |-> dir, item |-> fileItem(name), text |-> TemplateText \cup classes]

\* a workspace can hold PageFactory.ts and registries of other names, at the
\* root of the workspace or below it
InitUse ==
    /\ EngineIdle
    /\ ops = 0
    /\ disk \in {{helperFile(HelperA)} \cup d \cup e :
                   d \in {{}, {registryWith(DirAB, "PageFactory", {"LoginPage", "Login"})},
                              {registryWith(Root, "PageFactory", {"LoginPage"})}},
                   e \in {{}, {registryWith(DirA, "MainFactory", {"LoginPage"})}}}
    /\ config = [preventNesting |-> TRUE]
    /\ prefs = [pageFactoryPaths |-> <<>>]
    /\ now = 1
    /\ run = [cmd |-> "none", pc |-> "idle", selectedPath |-> NoPath,
              pageFactoryPath |-> NoPath, selectedFolder |-> NoFolder,
              outcome |-> "none", warned |-> FALSE,
              diskBefore |-> disk, prefsBefore |-> prefs, given |-> NoneGiven]

NextUse ==
    \/ \E editor \in Editors : usePageObjectFromFactoryCommand(editor)
    \/ \E selected \in {"LoginPage", "Login", "undefined"}, hasPageParam \in BOOLEAN :
          usePickGetter(selected, hasPageParam)
    \/ \E userResponse \in {"Insert Here", "Cancel", "undefined"} : useInsertHere(userResponse)

SpecUse == InitUse /\ [][NextUse]_vars

\* the import lines of a document that bind the getter
importLinesOf(document, getterName) ==
    {i \in 1..Len(document.imports) : getterName \in Range(document.imports[i].n)}

C27_DocumentChangedOnlyAfterLastPrompt ==
    (run.cmd = "use" /\ (run.pc = "insertHere" \/ run.outcome = "aborted")) =>
        docs = run.docsBefore

---------------------------------------------------------------------------
(* The commands that delete or overwrite a file: create-registry,           *)
(* delete-registry with the saved-path menus, delete-helper                 *)

InitDestroy ==
    /\ EngineIdle
    /\ ops = 0
    /\ disk \in {{registryFile(DirA, "MainFactory"), helperFile(HelperA)} \cup d :
                   d \in {{}, {registryFile(DirAB, "PageFactory")}}}
    /\ config = [preventNesting |-> TRUE]
    /\ prefs = [pageFactoryPaths |-> <<savedEntry(FactoryAB, UserLabel, 0)>>]
    /\ now = 1
    /\ run = [Idle EXCEPT !.given = [NoneGiven EXCEPT ![FactoryAB] = UserLabel]]

NextDestroy ==
    \/ NextCreate
    \/ deletePageFactoryCommand
    \/ \E selection \in MenuSelections : selectPageFactoryPath(selection)
    \/ \E choice \in {"Remove from list", "Browse for new location", "Cancel", "undefined"} :
          staleWarning(choice)
    \/ \E selectedPath \in WorkspaceFiles \cup {NoPath} : browseForPageFactory(selectedPath)
    \/ \E proceed \in {"Yes", "No", "undefined"} : browseProceed(proceed)
    \/ \E label \in {NoLabel, NewLabel} : browseLabel(label)
    \/ \E selection \in EditSelections : editSavedPaths(selection)
    \/ \E confirm \in {"Yes", "No", "undefined"} : editClearAll(confirm)
    \/ \E action \in {"Edit label", "Use this path", "Remove from list", "undefined"} :
          editAction(action)
    \/ \E newLabel \in {NoLabel, NewLabel} : editLabel(newLabel)
    \/ \E confirm \in {"Yes, Delete", "Cancel", "undefined"} : deletePageFactoryConfirm(confirm)
    \/ \E pomFile \in HelperFiles, finalConfirm \in {"Delete", "Cancel", "undefined"} :
          deletePageObject(pomFile, "Keep in PageFactory", finalConfirm)

SpecDestroy == InitDestroy /\ [][NextDestroy]_vars

---------------------------------------------------------------------------
(* add-helpers-to-registry and remove-helper-from-registry running at the   *)
(* same time on one registry file: each command is suspended at its prompts *)

\* no call of the engine made by the command yet
NoWrite == [base |-> <<>>, post |-> <<>>, at |-> 0]

IdleCommand == [pc |-> "idle", start |-> <<>>, list |-> <<>>, picked |-> {}, call |-> NoWrite]

\* the text the engine starts from is the text of the file as the command found it
fileTextAtStart(start, current) == start

\* fs.readFileSync(pageFactoryPath, "utf8") at the head of the engine: the text of
\* the file at the time of the call
fileText(start, current) == current

\* addPageObjectToFactory starts and waits at its prompts
addBegin ==
    /\ run.add.pc = "idle"
    /\ ops < MaxOps
    /\ ops' = ops + 1
    /\ run' = [run EXCEPT !.add = [IdleCommand EXCEPT !.pc = "pickFiles",
                                                      !.start = registry]]
    /\ cmds' = cmds \cup {"add"}
    /\ UNCHANGED <<registry, writes, docs, last>>
    /\ UNCHANGED <<disk, config, prefs, now>>

\* the multi-pick returns and updatePageFactory runs to its end
addPick(selectedFiles) ==
    /\ run.add.pc = "pickFiles"
    /\ \A i \in 1..Len(selectedFiles) : selectedFiles[i] \in existingFiles
    /\ IF Len(selectedFiles) = 0
       THEN /\ run' = [run EXCEPT !.add.pc = "idle"]
            /\ UNCHANGED <<registry, writes, last>>
       ELSE \E content \in {fileText(run.add.start, registry)} :
            \E r \in {updatePageFactory(content, selectedFiles)} :
               /\ registry' = IF r.wrote THEN r.content ELSE registry
               /\ writes' = IF r.wrote THEN writes + 1 ELSE writes
               /\ last' = [NoCall EXCEPT !.op = "add", !.files = selectedFiles,
                                         !.pre = content, !.skipped = r.skipped,
                                         !.added = r.added, !.wrote = r.wrote]
               /\ run' = [run EXCEPT
                            !.add.pc = "idle",
                            !.add.call = IF r.wrote
                                         THEN [base |-> content, post |-> r.content,
                                               at |-> writes + 1]
                                         ELSE NoWrite]
    /\ UNCHANGED <<docs, cmds, ops>>
    /\ UNCHANGED <<disk, config, prefs, now>>

\* removePageObjectFromFactory starts: it lists the helpers of the registry and
\* waits at the multi-pick; an empty list ends it
removeBegin ==
    /\ run.remove.pc = "idle"
    /\ ops < MaxOps
    /\ ops' = ops + 1
    /\ \E existingPageObjects \in {extractPageObjectsFromPageFactory(registry)} :
          run' = [run EXCEPT !.remove =
                    [IdleCommand EXCEPT
                       !.pc = IF Len(existingPageObjects) = 0 THEN "idle" ELSE "pick",
                       !.start = registry,
                       !.list = existingPageObjects]]
    /\ cmds' = cmds \cup {"remove"}
    /\ UNCHANGED <<registry, writes, docs, last>>
    /\ UNCHANGED <<disk, config, prefs, now>>

\* the multi-pick of the helpers to remove returns
removePick(picked) ==
    /\ run.remove.pc = "pick"
    /\ picked \subseteq {run.remove.list[i] : i \in 1..Len(run.remove.list)}
    /\ run' = [run EXCEPT !.remove.pc = IF picked = {} THEN "idle" ELSE "confirm",
                          !.remove.picked = picked]
    /\ UNCHANGED <<registry, writes, docs, last, cmds, ops>>
    /\ UNCHANGED <<disk, config, prefs, now>>

\* the answer to "Are you sure you want to remove these Page Objects from
\* PageFactory?"; on "Yes, Remove" removePOMsFromPageFactory runs to its end
removeConfirm(confirm) ==
    /\ run.remove.pc = "confirm"
    /\ IF confirm # "Yes, Remove"
       THEN /\ run' = [run EXCEPT !.remove.pc = "idle"]
            /\ UNCHANGED <<registry, writes, last>>
       ELSE \E content \in {fileText(run.remove.start, registry)} :
            \E selected \in {filter(run.remove.list,
                                    {i \in 1..Len(run.remove.list) :
                                       run.remove.list[i] \in run.remove.picked})} :
            \E post \in {removePOMsFromPageFactory(content, selected)} :
               /\ registry' = post
               /\ writes' = writes + 1
               /\ last' = [NoCall EXCEPT !.op = "remove", !.classes = selected,
                                         !.pre = content, !.wrote = TRUE]
               /\ run' = [run EXCEPT
                            !.remove.pc = "idle",
                            !.remove.call = [base |-> content, post |-> post,
                                             at |-> writes + 1]]
    /\ UNCHANGED <<docs, cmds, ops>>
    /\ UNCHANGED <<disk, config, prefs, now>>

\* the generated template after one addition of the helper of file "f1"
OneHelperRegistry == updatePageFactory(generatePageFactoryTemplate, <<"f1">>).content

InitInterleave ==
    /\ registry \in InitialRegistries \cup {OneHelperRegistry}
    /\ writes = 0
    /\ docs = [f \in HelperFiles |-> [exists |-> TRUE, imports |-> <<>>, consts |-> <<>>]]
    /\ last = NoCall
    /\ cmds = {}
    /\ ops = 0
    /\ disk = {}
    /\ config = [preventNesting |-> TRUE]
    /\ prefs = [pageFactoryPaths |-> <<>>]
    /\ now = 0
    /\ run = [add |-> IdleCommand, remove |-> IdleCommand]

NextInterleave ==
    \/ addBegin
    \/ \E selectedFiles \in Batches(HelperFiles) \cup {<<>>} : addPick(selectedFiles)
    \/ removeBegin
    \/ \E picked \in SUBSET ClassNames : removePick(picked)
    \/ \E confirm \in {"Yes, Remove", "Cancel", "undefined"} : removeConfirm(confirm)

SpecInterleave == InitInterleave /\ [][NextInterleave]_vars

\* C18: the engine reads the text of the file when it is called, not when its
\* command started: the text of the file is what the latest call wrote, and
\* each call started from what the call before it wrote, so the file holds
\* the changes of both commands
C18_NoLostUpdate ==
    \A c \in {run.add.call, run.remove.call} :
        c.at > 0 =>
            /\ c.at = writes => registry = c.post
            /\ \A d \in {run.add.call, run.remove.call} :
                  (d.at > 0 /\ d.at = c.at - 1) => c.base = d.post

\* both commands waited at a prompt at the same time, the addition wrote first,
\* and the removal then started from a text that was not the one it had listed
C18_Witness ==
    /\ run.add.call.at = 1
    /\ run.remove.call.at = 2
    /\ run.remove.start # run.remove.call.base
    /\ run.remove.call.post # run.remove.call.base

---------------------------------------------------------------------------
(* The generated registry class at run time: the singleton, setPage, and the *)
(* accessor that updatePageFactory generates for each registered helper;     *)
(* the calls are made on the class or through the function values that the  *)
(* export statements at the end of the file take off the singleton          *)

\* the calls made on the registry are counted up to MaxCalls
MaxCalls == 5

\* the Page objects of a test run; NoPage is undefined
NoPage == "undefined"

Pages == {"page1", "page2"}

\* the generated template after the addition of the helpers of "f1" and "f3"
TwoHelperRegistry == updatePageFactory(generatePageFactoryTemplate, <<"f1", "f3">>).content

\* the classes for which the registry text has an accessor
registeredHelpers(content) == {cls \in ClassNames : gettersOf(content, cls) # {}}

\* no object: the value of a field that was never assigned
Unset == 0

\* an accessor that takes every backing field for unset
isUnsetAlways(field) == TRUE

\* "!this.${propertyName}"
isUnset(field) == field = Unset

\* the class PageFactory is loaded: no singleton, no call
Loaded ==
    [instances |-> 0, globalPage |-> NoPage,
     fields |-> [cls \in ClassNames |-> Unset],
     constructed |-> [cls \in ClassNames |-> 0],
     calls |-> 0,
     ret |-> [name |-> "none", cls |-> NoIdent, page |-> NoPage, via |-> "none",
              outcome |-> "none", value |-> Unset]]

\* "public static get instance()": the singleton is made on the first access
instance(o) == IF o.instances = 0 THEN [o EXCEPT !.instances = 1] ELSE o

\* ensurePageSet(page) throws when no page is set and none is passed
ensurePageSetThrows(o, page) == o.globalPage = NoPage /\ page = NoPage

\* ensurePageSet(page) otherwise: the page passed is set when none was set
ensurePageSet(o, page) ==
    IF o.globalPage = NoPage THEN [o EXCEPT !.globalPage = page] ELSE o

\* "if (!this.field) this.field = new X(); return this.field;": the object
\* made by the n-th "new X()" is n
constructIfUnset(o, cls) ==
    IF isUnset(o.fields[cls])
    THEN [o EXCEPT !.constructed[cls] = @ + 1, !.fields[cls] = o.constructed[cls] + 1]
    ELSE o

\* what a call leaves in the record of the last call
returns(name, cls, page, via, outcome, value) ==
    [name |-> name, cls |-> cls, page |-> page, via |-> via,
     outcome |-> outcome, value |-> value]

\* the method setPage(page) with "this" the singleton
setPageMethod(o, page, via) ==
    [instance(o) EXCEPT !.globalPage = page, !.calls = @ + 1,
                        !.ret = returns("setPage", NoIdent, page, via, "returned", Unset)]

\* the generated accessor of class cls with "this" the singleton
getterMethod(o, cls, page, via) ==
    IF ensurePageSetThrows(instance(o), page)
    THEN [instance(o) EXCEPT !.calls = @ + 1,
                             !.ret = returns("get", cls, page, via, "threw", Unset)]
    ELSE LET made == constructIfUnset(ensurePageSet(instance(o), page), cls)
         IN [made EXCEPT !.calls = @ + 1,
                         !.ret = returns("get", cls, page, via, "returned",
                                         made.fields[cls])]

\* a method taken off the singleton and called as a plain function: "this" is
\* undefined, and the first statement of the body, which reads or writes a
\* property of "this", throws a TypeError
unboundCall(o, name, cls, page) ==
    [instance(o) EXCEPT !.calls = @ + 1,
                        !.ret = returns(name, cls, page, "export", "threw", Unset)]

\* PageFactory.instance.setPage(page)
setPage(page) ==
    /\ run.calls < MaxCalls
    /\ run' = setPageMethod(run, page, "method")
    /\ UNCHANGED <<disk, config, prefs, now, ops>>
    /\ UNCHANGED engineVars

\* PageFactory.instance.getX(page): the generated accessor of class cls
getPageObject(cls, page) ==
    /\ run.calls < MaxCalls
    /\ cls \in registeredHelpers(registry)
    /\ run' = getterMethod(run, cls, page, "method")
    /\ UNCHANGED <<disk, config, prefs, now, ops>>
    /\ UNCHANGED engineVars

\* the exported "setPage = PageFactory.instance.setPage" called as setPage(page)
setPageExported(page) ==
    /\ run.calls < MaxCalls
    /\ run' = unboundCall(run, "setPage", NoIdent, page)
    /\ UNCHANGED <<disk, config, prefs, now, ops>>
    /\ UNCHANGED engineVars

\* the exported "getX = PageFactory.instance.getX" called as getX(page)
getPageObjectExported(cls, page) ==
    /\ run.calls < MaxCalls
    /\ cls \in registeredHelpers(registry)
    /\ run' = unboundCall(run, "get", cls, page)
    /\ UNCHANGED <<disk, config, prefs, now, ops>>
    /\ UNCHANGED engineVars

InitAccessor ==
    /\ registry = TwoHelperRegistry
    /\ writes = 0
    /\ docs = [f \in HelperFiles |-> [exists |-> TRUE, imports |-> <<>>, consts |-> <<>>]]
    /\ last = NoCall
    /\ cmds = {}
    /\ ops = 0
    /\ disk = {}
    /\ config = [preventNesting |-> TRUE]
    /\ prefs = [pageFactoryPaths |-> <<>>]
    /\ now = 0
    /\ run = Loaded

NextAccessor ==
    \/ \E page \in Pages : setPage(page)
    \/ \E cls \in ClassNames, page \in Pages \cup {NoPage} : getPageObject(cls, page)
    \/ \E page \in Pages : setPageExported(page)
    \/ \E cls \in ClassNames, page \in Pages \cup {NoPage} : getPageObjectExported(cls, page)

SpecAccessor == InitAccessor /\ [][NextAccessor]_vars

\* C20: over every sequence of calls each helper is constructed at most once,
\* and an accessor call that returns gives back the object that was constructed
\* first, which is the object in the backing field
C20_ConstructedOnceAndCached ==
    /\ \A cls \in ClassNames : run.constructed[cls] <= 1
    /\ (run.ret.name = "get" /\ run.ret.outcome = "returned") =>
          /\ run.ret.value = 1
          /\ run.ret.value = run.fields[run.ret.cls]

\* every helper has been constructed, and a later accessor call returned
C20_Witness ==
    /\ run.calls >= 3
    /\ run.ret.name = "get"
    /\ run.ret.outcome = "returned"
    /\ run.constructed[run.ret.cls] = 1
    /\ \A cls \in ClassNames : run.constructed[cls] = 1

\* the call of the method of that name on PageFactory.instance
methodCall(o, name, cls, page) ==
    IF name = "setPage" THEN setPageMethod(o, page, "export")
    ELSE getterMethod(o, cls, page, "export")

\* C21: a call of an exported function (setPage, getX) leaves the registry in
\* the state, and gives the result, that the call of the method of that name on
\* PageFactory.instance with the same argument gives
C21_ExportedBoundToSingleton ==
    [][(run'.calls = run.calls + 1 /\ run'.ret.via = "export")
          => run' = methodCall(run, run'.ret.name, run'.ret.cls, run'.ret.page)]_vars

---------------------------------------------------------------------------
(* Properties of the saved-path menus and of add-helpers-to-registry *)

\* C13: a command that ended at a dismissed prompt or for a missing
\* prerequisite (no candidate files found) left every file and the whole
\* preference store exactly as they were when the command started
C13_AbortHasNoSideEffect ==
    run.outcome = "aborted" => disk = run.diskBefore /\ prefs = run.prefsBefore

\* C14: the path that the selection flow hands to the orchestrator names a
\* file that exists
C14_HandedPathExists ==
    (run.cmd \in SelectingCommands /\ run.pc \in {"selectDirectory", "deleteConfirm"})
        => existsSync(disk, run.pageFactoryPath)

\* C15: a label the user gave to a registry is the label of its saved entry
C15_GivenLabelKept ==
    \A i \in 1..Len(prefs.pageFactoryPaths) :
        LET e == prefs.pageFactoryPaths[i]
        IN run.given[e.path] # NoLabel => e.label = run.given[e.path]

\* some other existing file outside the registry imports a name that contains
\* the class name of helper file f
referencedOutsideRegistry(f) ==
    \E g \in existingFiles \ {f} :
        /\ ~isPageFactoryFile(g)
        /\ \E i \in 1..Len(docs[g].imports) : includesSeq(docs[g].imports[i], pickLabel(f))

\* C16: a delete-helper command on a helper file that is referenced outside the
\* registry deletes nothing and leaves the helper files and the registry as
\* they were, whatever is answered
C16_ReferencedHelperNotDeleted ==
    [][\A f \in HelperFiles :
          (/\ ops' = ops + 1
           /\ last'.op = "delete"
           /\ last'.file = f
           /\ referencedOutsideRegistry(f))
              => docs' = docs /\ registry' = registry]_vars

\* a delete-helper command has just been refused for a referenced helper file
C16_Witness ==
    /\ last.op = "delete"
    /\ docs[last.file].exists
    /\ referencedOutsideRegistry(last.file)

\* the classes with an import binding, with a private field, with an accessor
\* and with an export in a registry text
registeredHelpersIn(content) ==
    [imports |-> {cls \in ClassNames : importsOf(content, cls) # {}},
     fields |-> {cls \in ClassNames : fieldsOf(content, cls) # {}},
     getters |-> {cls \in ClassNames : gettersOf(content, cls) # {}},
     exports |-> {cls \in ClassNames : exportsOf(content, cls) # {}}]

\* the last command removed exactly the classes that the command before it added
removedWhatWasAdded ==
    /\ last.op = "remove"
    /\ last.prevOp = "add"
    /\ last.prevAdded # <<>>
    /\ Range(last.classes) = Range(last.prevAdded)

\* C29: when the classes that an addition added are removed again, the import
\* bindings, private fields, accessors and exports of the registry are those
\* of before the addition, and adding one of the classes again adds it and
\* does not skip it as a duplicate
C29_RemoveUndoesAdd ==
    removedWhatWasAdded =>
        /\ registeredHelpersIn(registry) = registeredHelpersIn(last.prevPre)
        /\ \A i \in 1..Len(last.prevFiles) :
              pickLabel(last.prevFiles[i]) \in Range(last.prevAdded) =>
                 updatePageFactory(registry, <<last.prevFiles[i]>>).added
                     = <<pickLabel(last.prevFiles[i])>>

\* C28: a helper file whose class the registry imports and exposes is deleted
\* by delete-helper only after the user was asked whether to remove the class
\* from the registry
C28_CleanUpOfferedBeforeDelete ==
    (/\ last.op = "delete"
     /\ ~docs[last.file].exists
     /\ importsOf(last.pre, pickLabel(last.file)) # {}
     /\ gettersOf(last.pre, pickLabel(last.file)) # {}) => last.asked

\* C17: a file of the disk goes away only in a delete-registry run whose
\* confirmation was answered "Yes, Delete", a helper file goes away only in a
\* delete-helper run whose confirmation was answered "Delete", and
\* create-registry writes over a file that exists only in a run whose warning
\* was answered "Overwrite Existing"
C17_DestructionConfirmed ==
    [][/\ \A f \in disk :
            ~existsSync(disk', f) =>
                /\ run'.cmd = "deleteFactory"
                /\ run'.confirm = "Yes, Delete"
                /\ run'.pageFactoryPath = joinPath(f.dir, f.item)
       /\ \A h \in HelperFiles :
            (docs[h].exists /\ ~docs'[h].exists) =>
                last'.op = "delete" /\ last'.file = h /\ last'.confirm = "Delete"
       /\ (run.cmd = "create" /\ run'.pc = "idle" /\ now' = now + 1
             /\ existsSync(disk, run'.written)) =>
                run'.overwriteAction = "Overwrite Existing"]_vars

\* a delete-registry run has removed the registry file after "Yes, Delete"
C17_Witness ==
    /\ run.cmd = "deleteFactory"
    /\ run.confirm = "Yes, Delete"
    /\ existsSync(run.diskBefore, run.pageFactoryPath)
    /\ ~existsSync(disk, run.pageFactoryPath)

\* C19: a registry is recognised by its content, whatever its file name: the
\* use-helper flow reports "not found" only when no file of the workspace has
\* the text of a registry, and no file with the text of a registry is among
\* the candidate helper files offered by add-helpers-to-registry
C19_RegistryByContent ==
    /\ (run.cmd = "use" /\ run.outcome = "notFound") => registriesOn(disk) = {}
    /\ run.pc = "pickFiles" =>
           findTSFilesBelow(disk, run.selectedFolder) \cap registriesOn(disk) = {}

---------------------------------------------------------------------------
(* Loading the registry module: the statements after the class are          *)
(* evaluated from top to bottom when a test file imports the registry, and  *)
(* the first statement that throws ends the evaluation                      *)

\* no test file has imported the registry
NotImported ==
    [phase |-> "notImported", instances |-> 0, globalPage |-> NoPage,
     exported |-> {}, error |-> "none"]

\* "public get page()": throws while no page is set
pageGetterThrows(m) == m.globalPage = NoPage

\* the statements after the class that read a member of PageFactory.instance
\* and export it
isExportStatement(t) ==
    \/ t.k = "other" /\ t.p \in {<<"exportPageFactory">>, <<"exportSetPage">>,
                                 <<"exportPage">>}
    \/ t.k = "export" /\ t.part = "whole"

\* the name that an export statement binds
exportedName(t) ==
    CASE t.k = "export" -> getterNameOf(t.n[1])
      [] t.p = <<"exportPageFactory">> -> <<"pageFactory">>
      [] t.p = <<"exportSetPage">> -> <<"setPage">>
      [] OTHER -> <<"page">>

\* "export const page = PageFactory.instance.page" calls the getter of page
statementThrows(m, t) ==
    t.k = "other" /\ t.p = <<"exportPage">> /\ pageGetterThrows(m)

\* import { ... } from "./PageFactory": the statements are evaluated in file
\* order up to the first one that throws; none of them sets the page
evaluateModule(content) ==
    LET throwing == {i \in 1..Len(content) : statementThrows(NotImported, content[i])}
        stop == IF throwing = {} THEN Len(content) + 1
                ELSE CHOOSE i \in throwing : \A j \in throwing : i <= j
        evaluated == {i \in 1..Len(content) : i < stop /\ isExportStatement(content[i])}
    IN [phase |-> IF throwing = {} THEN "evaluated" ELSE "failed",
        instances |-> IF evaluated # {} \/ throwing # {} THEN 1 ELSE 0,
        globalPage |-> NotImported.globalPage,
        exported |-> {exportedName(content[i]) : i \in evaluated},
        error |-> IF throwing = {} THEN "none" ELSE "Page not set"]

\* a test file imports the registry as the extension last wrote it
importRegistry ==
    /\ run' = evaluateModule(registry)
    /\ UNCHANGED <<disk, config, prefs, now, ops>>
    /\ UNCHANGED engineVars

InitModule ==
    /\ registry \in InitialRegistries
    /\ writes = 0
    /\ docs = [f \in HelperFiles |-> [exists |-> TRUE, imports |-> <<>>, consts |-> <<>>]]
    /\ last = NoCall
    /\ cmds = {}
    /\ ops = 0
    /\ disk = {}
    /\ config = [preventNesting |-> TRUE]
    /\ prefs = [pageFactoryPaths |-> <<>>]
    /\ now = 0
    /\ run = NotImported

NextModule ==
    \/ \E selectedFiles \in Batches(HelperFiles) : addPageObjectToFactory(selectedFiles)
    \/ \E picked \in SUBSET ClassNames : removePageObjectFromFactory(picked)
    \/ importRegistry

SpecModule == InitModule /\ [][NextModule]_vars

\* C30: importing the registry before any page has been set raises no error:
\* the evaluation of the module ends without "Page not set" and setPage is
\* exported
C30_LoadBeforeSetPageRaisesNoError ==
    run.phase # "notImported" =>
        /\ run.error = "none"
        /\ <<"setPage">> \in run.exported

---------------------------------------------------------------------------
(* findTSFiles on a disk with directories that the process may not read *)

\* a directory whose listing is denied: fs.readdirSync throws EACCES on it
unreadableDir(dir) == [dir |-> dir, item |-> <<>>, text |-> {"EACCES"}]

\* const items = fs.readdirSync(currentPath) throws
readdirSyncThrows(files, currentPath) == unreadableDir(currentPath) \in files

\* the directories that walkDir of findTSFiles enters from dirPath: dirPath and
\* every directory below it, whatever its name
walkedBy(dirPath) ==
    {d \in Range(Dirs) : d = dirPath \/ isProperAncestor(dirPath, d)}

\* findTSFiles(dirPath): walkDir has no try block, so the first listing that
\* throws ends the walk and the exception leaves findTSFiles
findTSFilesWalk(files, dirPath) ==
    IF \E d \in walkedBy(dirPath) : readdirSyncThrows(files, d)
    THEN [threw |-> TRUE, files |-> {}]
    ELSE [threw |-> FALSE, files |-> findTSFilesBelow(files, dirPath)]

\* the files that a disk may hold besides its registries
ScannedFiles ==
    {joinPath(DirA, fileItem(HelperName)),
     joinPath(DirAB, fileItem("CartPage")),
     joinPath(DirABC, fileItem("HomePage")),
     joinPath(DirModules, fileItem("index"))}

NotScanned ==
    [cmd |-> "none", pc |-> "idle", dirPath |-> NoFolder, threw |-> FALSE, files |-> {}]

\* a command calls findTSFiles(dirPath) on the folder picked by the user
scanDirectory(dirPath) ==
    /\ run.pc = "idle"
    /\ ops < MaxOps
    /\ ops' = ops + 1
    /\ \E found \in {findTSFilesWalk(disk, dirPath)} :
          run' = [cmd |-> "scan", pc |-> "idle", dirPath |-> dirPath,
                  threw |-> found.threw, files |-> found.files]
    /\ UNCHANGED <<disk, config, prefs, now>>
    /\ UNCHANGED engineVars

InitScan ==
    /\ EngineIdle
    /\ ops = 0
    /\ disk \in {{helperFile(f) : f \in present} \cup {unreadableDir(d) : d \in denied} :
                   present \in SUBSET ScannedFiles,
                   denied \in {{}, {DirAB}, {DirABC}, {DirModules}}}
    /\ config = [preventNesting |-> TRUE]
    /\ prefs = [pageFactoryPaths |-> <<>>]
    /\ now = 0
    /\ run = NotScanned

NextScan == \E dirPath \in {Root, DirA, DirAB} : scanDirectory(dirPath)

SpecScan == InitScan /\ [][NextScan]_vars

\* the directories between dirPath and d, both included, can all be read
readableFrom(files, dirPath, d) ==
    \A e \in walkedBy(dirPath) :
        (e = d \/ isProperAncestor(e, d)) => ~readdirSyncThrows(files, e)

\* C23: findTSFiles never ends with an exception because of an unreadable
\* subdirectory; it returns the candidate files of every readable directory
C23_UnreadableSubdirectorySkipped ==
    run.cmd = "scan" =>
        /\ ~run.threw
        /\ run.files = {f \in findTSFilesBelow(disk, run.dirPath) :
                          readableFrom(disk, run.dirPath, f.dir)}

---------------------------------------------------------------------------
(* Naming: the names that updatePageFactory derives from a class name under *)
(* the configured casing, and the class and file names that                 *)
(* processClassAndFileName derives from the input of the user.  A name is a *)
(* sequence of chunks: a capital letter, a small letter, or a run of small  *)
(* letters                                                                  *)

\* the longest name in chunks
MaxLen == 3

Alphabet == {"L", "P", "p", "ogin", "age"}

Identifiers == UNION {[1..n -> Alphabet] : n \in 1..MaxLen}

FileNameCases == {"camelCase", "kebab-case", "snake_case"}

\* [A-Z]
isCapital(ch) == ch \in {"L", "P"}

\* baseCase.replace(/([A-Z])/g, sep + "$1"): sep is put before every capital
RECURSIVE separateCapitals(_, _)
separateCapitals(id, sep) ==
    IF id = <<>> THEN <<>>
    ELSE (IF isCapital(Head(id)) THEN <<sep, Head(id)>> ELSE <<Head(id)>>)
            \o separateCapitals(Tail(id), sep)

\* classNameToPropertyCase(className) under namingConventions.fileNameCase
classNameToPropertyCase(className, fileNameCase) ==
    LET baseCase == <<toLowerCaseChar(className[1])>> \o Tail(className)
    IN CASE fileNameCase = "kebab-case" -> toLowerCase(separateCapitals(baseCase, "-"))
         [] fileNameCase = "snake_case" -> toLowerCase(separateCapitals(baseCase, "_"))
         [] OTHER -> baseCase

\* `${propertyPrefix}${classNameToPropertyCase(className)}`
propertyNameIn(className, namingConventions) ==
    <<namingConventions.propertyPrefix>>
        \o classNameToPropertyCase(className, namingConventions.fileNameCase)

\* a getter name that is always in camel case
getterNameCamel(className, namingConventions) == classNameToCamelCase(className)

\* const getterName = classNameToPropertyCase(className)
getterNameIn(className, namingConventions) ==
    classNameToPropertyCase(className, namingConventions.fileNameCase)

\* userInput.trim()
RECURSIVE trim(_)
trim(input) ==
    IF input = <<>> THEN <<>>
    ELSE IF Head(input) = " " THEN trim(Tail(input))
    ELSE IF input[Len(input)] = " " THEN trim(SubSeq(input, 1, Len(input) - 1))
    ELSE input

\* trimmedInput.toLowerCase().endsWith(suffix.toLowerCase())
endsWithSuffix(trimmedInput, suffix) ==
    /\ Len(trimmedInput) >= Len(suffix)
    /\ SubSeq(toLowerCase(trimmedInput), Len(trimmedInput) - Len(suffix) + 1,
              Len(trimmedInput)) = toLowerCase(suffix)

\* a slice that cuts nothing off
sliceNothing(input, suffix) == input

\* trimmedInput.slice(0, -suffix.length)
sliceSuffix(input, suffix) == SubSeq(input, 1, Len(input) - Len(suffix))

\* the letter at index 0 is put in lower case, every later capital is put in
\* lower case after sep
RECURSIVE separateLater(_, _, _)
separateLater(id, sep, index) ==
    IF id = <<>> THEN <<>>
    ELSE (IF isCapital(Head(id))
          THEN (IF index = 0 THEN <<toLowerCaseChar(Head(id))>>
                ELSE <<sep, toLowerCaseChar(Head(id))>>)
          ELSE <<Head(id)>>)
            \o separateLater(Tail(id), sep, index + 1)

\* processClassAndFileName(userInput): className and fileName
processClassAndFileName(userInput, namingConventions) ==
    LET trimmedInput == trim(userInput)
        suffix == namingConventions.classSuffix
        ends == endsWithSuffix(trimmedInput, suffix)
        baseFileName == IF ends THEN sliceSuffix(trimmedInput, suffix) ELSE trimmedInput
        finalFileName ==
            CASE namingConventions.fileNameCase = "kebab-case" ->
                    separateLater(baseFileName, "-", 0)
              [] namingConventions.fileNameCase = "snake_case" ->
                    separateLater(baseFileName, "_", 0)
              [] OTHER -> classNameToCamelCase(baseFileName)
    IN [className |-> IF ends THEN trimmedInput ELSE trimmedInput \o suffix,
        baseFileName |-> baseFileName,
        fileName |-> finalFileName \o <<".page", ".ts">>]

NothingNamed ==
    [cmd |-> "none", input |-> <<>>, className |-> <<>>, baseFileName |-> <<>>,
     fileName |-> <<>>, propertyName |-> <<>>, getterName |-> <<>>, accessor |-> <<>>]

\* create-helper-class, called once: the names for the input typed by the
\* user, and the base name that the same function cuts out of the class name
\* it made
createPageObjectClassNames(userInput) ==
    /\ run.cmd = "none"
    /\ \E made \in {processClassAndFileName(userInput, config)} :
          run' = [NothingNamed EXCEPT
                     !.cmd = "process", !.input = userInput,
                     !.className = made.className,
                     !.baseFileName = processClassAndFileName(made.className,
                                                              config).baseFileName,
                     !.fileName = made.fileName]
    /\ UNCHANGED <<disk, config, prefs, now, ops>>
    /\ UNCHANGED engineVars

\* the loop body of updatePageFactory for one class, run once: the names it
\* derives and the name of the accessor it writes
updatePageFactoryNames(className) ==
    /\ run.cmd = "none"
    /\ run' = [NothingNamed EXCEPT
                  !.cmd = "derive", !.input = className, !.className = className,
                  !.propertyName = propertyNameIn(className, config),
                  !.getterName = getterNameIn(className, config),
                  !.accessor = getterNameOf(className)]
    /\ UNCHANGED <<disk, config, prefs, now, ops>>
    /\ UNCHANGED engineVars

InitNaming ==
    /\ EngineIdle
    /\ ops = 0
    /\ disk = {}
    /\ config \in {[fileNameCase |-> c, classSuffix |-> <<"P", "age">>,
                    propertyPrefix |-> "_"] : c \in FileNameCases}
    /\ prefs = [pageFactoryPaths |-> <<>>]
    /\ now = 0
    /\ run = NothingNamed

NextNaming ==
    \/ \E userInput \in Identifiers \cup {<<" ">> \o x \o <<" ">> : x \in Identifiers} :
          createPageObjectClassNames(userInput)
    \/ \E className \in Identifiers : updatePageFactoryNames(className)

SpecNaming == InitNaming /\ [][NextNaming]_vars

C25_SuffixRoundTrip ==
    (/\ run.cmd = "process"
     /\ run.input \in Identifiers
     /\ ~endsWithSuffix(run.input, config.classSuffix)) =>
        /\ run.className = run.input \o config.classSuffix
        /\ run.baseFileName = run.input

\* a class name was made for an identifier without the suffix, and the suffix
\* was cut off it again
C25_Witness ==
    /\ run.cmd = "process"
    /\ run.input \in Identifiers
    /\ ~endsWithSuffix(run.input, config.classSuffix)
    /\ run.className # run.input
    /\ run.baseFileName = run.input

=============================================================================
